---- MODULE Spec2Model ----
(***************************************************************************)
(* A model of the arduino-router MessagePack-RPC router.                   *)
(*                                                                         *)
(* The router accepts byte streams from peers.  For every stream it builds *)
(* a msgpackrpc.Connection (src/msgpackrpc/connection.go) whose request    *)
(* handler is the router's dispatch closure (Router.connectionLoop in      *)
(* src/internal/msgpackrouter/errors.go; the forwarding call is the        *)
(* Connection.SendRequest of src/go.mod:129-137).                          *)
(*                                                                         *)
(* One goroutine per connection runs Connection.Run, one goroutine per     *)
(* inbound Request runs the handler.  The peers are the environment: they  *)
(* write frames on their stream, answer the Requests they receive and may  *)
(* close the stream at any time.                                           *)
(***************************************************************************)
EXTENDS Integers, Sequences, FiniteSets, TLC

\* ------------------------------------------------------------------------
\* Bounds of the model
\* ------------------------------------------------------------------------
NConns == 2
\* frames and closes the peers produce in one run, all peers together
MaxEvents == 3

Conns == 1 .. NConns

\* Connection.lastOutRequestsIndex is an atomic.Uint32: Add(1) wraps from
\* 2^32 - 1 to 0.  The width is scaled down to this modulus, which is larger
\* than the number of requests a run from Init can forward.
MsgIdModulus == 5

\* ------------------------------------------------------------------------
\* Program constants
\* ------------------------------------------------------------------------
messageTypeRequest == 0
messageTypeResponse == 1
messageTypeNotification == 2

\* the perConnMaxWorkers the router is created with (--max-pending-requests)
perConnMaxWorkers == 1

ErrCodeInvalidParams == 1
ErrCodeMethodNotAvailable == 2
ErrCodeFailedToSendRequests == 3
ErrCodeGenericError == 4
ErrCodeRouteAlreadyExists == 5

\* ------------------------------------------------------------------------
\* Values of Go's `any` that travel in frames.  k is the dynamic type, s the
\* pieces of a string (a Sprintf result is the sequence of its pieces), n a
\* number.  A two-element array [code, message] has k = "array".
\* ------------------------------------------------------------------------
Val(k, s, n) == [k |-> k, s |-> s, n |-> n]
Nil == Val("nil", <<>>, 0)
True == Val("bool", <<>>, 1)
Str(x) == Val("str", <<x>>, 0)
Uint(i) == Val("uint", <<>>, i)

routerError(code, message) == Val("array", message, code)

newRouteAlreadyExistsError(route) ==
    [code |-> ErrCodeRouteAlreadyExists,
     message |-> <<"route already exists: ", route>>]

ToEncodedError(m) == Val("array", m.message, m.code)

\* ToUint of the first element of a $/cancelRequest params array
ToUintOk(v) == v.k = "uint"

\* ------------------------------------------------------------------------
\* Frames: [type, msgid, method, params] / [type, msgid, error, result] /
\* [type, method, params]; the fields a frame type does not have are zero.
\* ------------------------------------------------------------------------
RequestFrame(id, method, params) ==
    [type |-> messageTypeRequest, id |-> id, method |-> method,
     params |-> params, err |-> Nil, res |-> Nil]
ResponseFrame(id, reqError, reqResult) ==
    [type |-> messageTypeResponse, id |-> id, method |-> "",
     params |-> <<>>, err |-> reqError, res |-> reqResult]
NotificationFrame(method, params) ==
    [type |-> messageTypeNotification, id |-> 0, method |-> method,
     params |-> params, err |-> Nil, res |-> Nil]

\* ------------------------------------------------------------------------
\* What the peers may send
\* ------------------------------------------------------------------------
MethodNames == {"ping"}
InternalNames == {"$/version"}
PeerIds == {7, 8}
PeerCalls ==
    {<<"$/register", <<Str(m)>>>> : m \in MethodNames}
    \cup {<<"$/reset", <<>>>>}
    \cup {<<m, <<>>>> : m \in MethodNames}
\* Requests that name an internal method or an intrinsic one as a route: a
\* peer registers the name for itself, or calls the internal method
InternalCalls ==
    {<<"$/register", <<Str(m)>>>> : m \in InternalNames \cup {"$/reset"}}
    \cup {<<m, <<>>>> : m \in InternalNames}
\* a peer answers a Request with a result that names the Request it answers,
\* or with an error
PeerPayloads(id) == {[err |-> Nil, res |-> Uint(id)],
                    [err |-> Str("failed"), res |-> Nil]}
SpuriousPayload == [err |-> Nil, res |-> Str("spurious")]

\* ------------------------------------------------------------------------
\* Go maps as functions with a dynamic domain
\* ------------------------------------------------------------------------
EmptyMap == <<>>
MapPut(f, key, v) == (key :> v) @@ f
MapDelete(f, key) == [x \in DOMAIN f \ {key} |-> f[x]]
MapHas(f, key) == key \in DOMAIN f

VARIABLES
    routes,               \* Router.routes: method -> connection
    routesInternal,       \* Router.routesInternal: the registered names
    sendMaxWorkers,       \* Router.sendMaxWorkers
    peerClosed,           \* per connection: the peer closed its end of the stream
    out,                  \* per connection: frames written by the router, in order
    closed,               \* per connection: Connection.Close has been called
    runState,             \* per connection: position of Router.connectionLoop
    activeInRequests,     \* Connection.activeInRequests: msgid -> handler task
    activeOutRequests,    \* Connection.activeOutRequests: msgid -> waiting task
    lastOutRequestsIndex, \* Connection.lastOutRequestsIndex
    tasks,                \* the handler goroutines started by handleIncomingRequest
    errLog,               \* per connection: the calls of the error handler
    peerAnswered,         \* per peer: the msgids the peer has answered
    sent,                 \* what the peers have sent so far (bounds the run)
    outMutex,             \* Connection.outMutex of one connection: 0, or its holder
    wire,                 \* the chunks written on that connection's output stream
    senders               \* the goroutines inside Connection.send on that connection

\* package networkapi (src/unnamed/part_011)
VARIABLES
    lock,                 \* the package's sync.RWMutex: the callers holding RLock
    liveConnections,      \* the ids of liveConnections
    liveListeners,        \* the ids of liveListeners
    liveUdpConnections,   \* the ids of liveUdpConnections
    udpWriteTargets,      \* id -> target address of the packet begun
    udpWriteBuffers,      \* id -> bytes of the packet begun
    udpReadBuffers,       \* id -> bytes of the packet received, not yet read
    nextConnectionID,     \* the atomic.Uint32 id counter
    netCalls,             \* per caller: the handler call it is inside of
    lastReturn,           \* the (result, error) pair the last handler call returned
    datagrams,            \* the datagrams handed to the network by WriteTo
    started,              \* the handler calls started so far (bounds the run)
    fatal                 \* the Go runtime has thrown a fatal error

netMaps == <<liveConnections, liveListeners, liveUdpConnections,
             udpWriteTargets, udpWriteBuffers, udpReadBuffers,
             nextConnectionID>>
netVars == <<lock, netMaps, netCalls, lastReturn, datagrams, started, fatal>>

\* the serial port of startRouter (src/main.go).  serialLock guards
\* serialCloseSignal; a section between Lock and Unlock, or between Lock and
\* Wait, is one step, and Wait gives the lock up until the waiter is woken.
VARIABLES
    serialCloseSignal,    \* 0 (nil), or the channel the variable holds
    serialChans,          \* per channel made so far: has it been closed
    serialRoutine,        \* the goroutine that opens the port and runs the connection
    serialCalls           \* the calls of the $/serial/open and $/serial/close handlers

serialVars == <<serialCloseSignal, serialChans, serialRoutine, serialCalls>>

vars == <<routes, routesInternal, sendMaxWorkers, peerClosed, out,
          closed, runState, activeInRequests, activeOutRequests,
          lastOutRequestsIndex, tasks, errLog, peerAnswered, sent,
          outMutex, wire, senders, netVars, serialVars>>

routerVars == <<routes, routesInternal, sendMaxWorkers>>
connVars == <<activeInRequests, activeOutRequests, lastOutRequestsIndex>>
peerVars == <<peerClosed, peerAnswered, sent>>
sendVars == <<outMutex, wire, senders>>

TaskIds == 1 .. Len(tasks)

\* ------------------------------------------------------------------------
\* Construction: msgpackrouter.New, the internal methods registered at
\* startup, and one accepted connection per peer.
\* ------------------------------------------------------------------------
\* the state of package networkapi when the program starts
NCallers == 2
Callers == 1 .. NCallers
IdleCall == [pc |-> "idle", method |-> "", params |-> <<>>, id |-> 0,
             data |-> <<>>, udpBuffer |-> <<>>, ok |-> FALSE]
NoReturn == [method |-> "", params |-> <<>>, result |-> Nil, err |-> Nil]

\* var serialCloseSignal = make(chan struct{}); the goroutine starts at the
\* top of its loop
SerialInit ==
    /\ serialCloseSignal = 1
    /\ serialChans = <<FALSE>>
    /\ serialRoutine = [pc |-> "top", close |-> 0]
    /\ serialCalls = <<>>

NetInit ==
    /\ lock = {}
    /\ liveConnections = {}
    /\ liveListeners = {}
    /\ liveUdpConnections = {}
    /\ udpWriteTargets = EmptyMap
    /\ udpWriteBuffers = EmptyMap
    /\ udpReadBuffers = EmptyMap
    /\ nextConnectionID = 0
    /\ netCalls = [g \in Callers |-> IdleCall]
    /\ lastReturn = NoReturn
    /\ datagrams = <<>>
    /\ started = 0
    /\ fatal = FALSE

New(maxWorkers) ==
    /\ routes = EmptyMap
    /\ routesInternal = InternalNames
    /\ sendMaxWorkers = maxWorkers

NewConnection ==
    /\ activeInRequests = [c \in Conns |-> EmptyMap]
    /\ activeOutRequests = [c \in Conns |-> EmptyMap]
    /\ lastOutRequestsIndex = [c \in Conns |-> 0]
    /\ closed = [c \in Conns |-> FALSE]
    /\ errLog = [c \in Conns |-> <<>>]

Init ==
    /\ New(perConnMaxWorkers)
    /\ NewConnection
    /\ peerClosed = [c \in Conns |-> FALSE]
    /\ out = [c \in Conns |-> <<>>]
    /\ runState = [c \in Conns |-> "running"]
    /\ tasks = <<>>
    /\ peerAnswered = [c \in Conns |-> {}]
    /\ sent = [events |-> 0, cancels |-> 0, reqs |-> [c \in Conns |-> 0]]
    /\ outMutex = 0
    /\ wire = <<>>
    /\ senders = <<>>
    /\ NetInit
    /\ SerialInit

\* ------------------------------------------------------------------------
\* The peers (environment).  A peer writes a frame when the connection's Run
\* loop is about to decode it: a frame waiting in the stream is invisible to
\* the router, so writing and decoding are one step (DecodeXxx below).
\* ------------------------------------------------------------------------
PeerCanSend(p) ==
    /\ ~peerClosed[p]
    /\ ~closed[p]
    /\ runState[p] = "running"

\* the msgids peer p picks from for its next Request: the ones it has used
\* and the next unused one
FreshIds(p) == {i \in PeerIds : i <= 7 + sent.reqs[p]}

\* the msgids of the Requests the router has written to peer p
ReceivedIds(p) ==
    {out[p][j].id : j \in {x \in DOMAIN out[p] : out[p][x].type = messageTypeRequest}}

PeerClose(p) ==
    /\ ~peerClosed[p]
    /\ sent.events < MaxEvents
    /\ peerClosed' = [peerClosed EXCEPT ![p] = TRUE]
    /\ sent' = [sent EXCEPT !.events = @ + 1]
    /\ UNCHANGED <<routerVars, connVars, peerAnswered, out, closed,
                   runState, tasks, errLog>>
    /\ UNCHANGED <<sendVars, netVars, serialVars>>

\* ------------------------------------------------------------------------
\* Connection: writing a frame.  The write fails once Close has been called;
\* after the peer has gone it may succeed (buffered) or fail.
\* ------------------------------------------------------------------------
WriteOutcomes(c) ==
    IF closed[c] THEN {FALSE}
    ELSE IF peerClosed[c] THEN {TRUE, FALSE}
    ELSE {TRUE}

\* Connection.send: the frame is encoded onto the stream under outMutex
send(o, c, frame, ok) ==
    IF ok THEN [o EXCEPT ![c] = Append(@, frame)] ELSE o

\* ------------------------------------------------------------------------
\* Connection: the inbound side
\* ------------------------------------------------------------------------
NewTask(c, id, method, params) ==
    [conn |-> c, id |-> id, method |-> method, params |-> params,
     pc |-> "start", cancelled |-> FALSE, late |-> {}, target |-> 0, tid |-> 0,
     chan |-> <<>>, result |-> [err |-> Nil, res |-> Nil]]

\* handleIncomingRequest that leaves the entry of an active request in place
handleIncomingRequest_KeepOld(c, id, method, params) ==
    LET overridden == MapHas(activeInRequests[c], id)
        req == Len(tasks) + 1
        canceled == IF overridden
                    THEN [tasks EXCEPT ![activeInRequests[c][id]].cancelled = TRUE]
                    ELSE tasks
    IN  /\ errLog' = IF overridden
                     THEN [errLog EXCEPT ![c] = Append(@, "RPC protocol violation")]
                     ELSE errLog
        /\ activeInRequests' = IF overridden THEN activeInRequests
                               ELSE [activeInRequests EXCEPT ![c] = MapPut(@, id, req)]
        /\ tasks' = Append(canceled, NewTask(c, id, method, params))
        /\ UNCHANGED <<routerVars, activeOutRequests, lastOutRequestsIndex, out, closed>>

\* Connection.handleIncomingRequest up to the start of the goroutine
handleIncomingRequest(c, id, method, params) ==
    LET overridden == MapHas(activeInRequests[c], id)
        req == Len(tasks) + 1
        canceled == IF overridden
                    THEN [tasks EXCEPT ![activeInRequests[c][id]].cancelled = TRUE]
                    ELSE tasks
    IN  /\ errLog' = IF overridden
                     THEN [errLog EXCEPT ![c] = Append(@, "RPC protocol violation")]
                     ELSE errLog
        /\ activeInRequests' = [activeInRequests EXCEPT ![c] = MapPut(@, id, req)]
        /\ tasks' = Append(canceled, NewTask(c, id, method, params))
        /\ UNCHANGED <<routerVars, activeOutRequests, lastOutRequestsIndex, out, closed>>

\* cancelIncomingRequest that fires every active request of the connection
cancelIncomingRequest_All(c, id) ==
    /\ tasks' = [k \in DOMAIN tasks |->
                    IF \E i \in DOMAIN activeInRequests[c] : activeInRequests[c][i] = k
                    THEN [tasks[k] EXCEPT !.cancelled = TRUE]
                    ELSE tasks[k]]
    /\ UNCHANGED <<routerVars, connVars, out, closed, errLog>>

\* cancelIncomingRequest that also forgets the request
cancelIncomingRequest_Delete(c, id) ==
    /\ tasks' = IF MapHas(activeInRequests[c], id)
                THEN [tasks EXCEPT ![activeInRequests[c][id]].cancelled = TRUE]
                ELSE tasks
    /\ activeInRequests' = [activeInRequests EXCEPT ![c] = MapDelete(@, id)]
    /\ UNCHANGED <<routerVars, activeOutRequests, lastOutRequestsIndex, out, closed, errLog>>

\* Connection.cancelIncomingRequest
cancelIncomingRequest(c, id) ==
    /\ tasks' = IF MapHas(activeInRequests[c], id)
                THEN [tasks EXCEPT ![activeInRequests[c][id]].cancelled = TRUE]
                ELSE tasks
    /\ UNCHANGED <<routerVars, connVars, out, closed, errLog>>

\* Connection.handleIncomingNotification for "$/cancelRequest"
handleIncomingNotification(c, method, params) ==
    /\ method = "$/cancelRequest"
    /\ IF Len(params) # 1
       THEN /\ errLog' = [errLog EXCEPT ![c] = Append(@, "invalid cancelRequest")]
            /\ UNCHANGED <<routerVars, connVars, out, closed, tasks>>
       ELSE IF ~ToUintOk(params[1])
       THEN /\ errLog' = [errLog EXCEPT ![c] = Append(@, "invalid cancelRequest")]
            /\ UNCHANGED <<routerVars, connVars, out, closed, tasks>>
       ELSE cancelIncomingRequest(c, params[1].n)

\* handleIncomingResponse that leaves the answered request in the table
handleIncomingResponse_NoDelete(c, id, reqError, reqResult) ==
    LET ok == MapHas(activeOutRequests[c], id)
    IN  IF ok
        THEN /\ tasks' = [tasks EXCEPT ![activeOutRequests[c][id]].chan =
                              Append(@, [err |-> reqError, res |-> reqResult])]
             /\ UNCHANGED <<routerVars, connVars, out, closed, errLog>>
        ELSE /\ errLog' = [errLog EXCEPT ![c] = Append(@, "invalid ID in request response")]
             /\ UNCHANGED <<routerVars, connVars, out, closed, tasks>>

\* handleIncomingResponse that hands a Response whose msgid is not in the
\* table to the request that used the msgid last
handleIncomingResponse_Redeliver(c, id, reqError, reqResult) ==
    LET ok == MapHas(activeOutRequests[c], id)
        users == {k \in DOMAIN tasks : tasks[k].target = c /\ tasks[k].tid = id}
    IN  IF ok
        THEN /\ activeOutRequests' = [activeOutRequests EXCEPT ![c] = MapDelete(@, id)]
             /\ tasks' = [tasks EXCEPT ![activeOutRequests[c][id]].chan =
                              Append(@, [err |-> reqError, res |-> reqResult])]
             /\ UNCHANGED <<routerVars, activeInRequests, lastOutRequestsIndex,
                            out, closed, errLog>>
        ELSE /\ tasks' = [k \in DOMAIN tasks |->
                            IF k \in users
                            THEN [tasks[k] EXCEPT !.chan =
                                     Append(@, [err |-> reqError, res |-> reqResult])]
                            ELSE tasks[k]]
             /\ UNCHANGED <<routerVars, connVars, out, closed, errLog>>

\* Connection.handleIncomingResponse
handleIncomingResponse(c, id, reqError, reqResult) ==
    LET ok == MapHas(activeOutRequests[c], id)
    IN  IF ok
        THEN /\ activeOutRequests' = [activeOutRequests EXCEPT ![c] = MapDelete(@, id)]
             /\ tasks' = [tasks EXCEPT ![activeOutRequests[c][id]].chan =
                              Append(@, [err |-> reqError, res |-> reqResult])]
             /\ UNCHANGED <<routerVars, activeInRequests, lastOutRequestsIndex,
                            out, closed, errLog>>
        ELSE /\ errLog' = [errLog EXCEPT ![c] = Append(@, "invalid ID in request response")]
             /\ UNCHANGED <<routerVars, connVars, out, closed, tasks>>

\* Connection.processIncomingMessage for a well-formed envelope
processIncomingMessage(c, data) ==
    IF data.type = messageTypeRequest
    THEN handleIncomingRequest(c, data.id, data.method, data.params)
    ELSE IF data.type = messageTypeResponse
    THEN handleIncomingResponse(c, data.id, data.err, data.res)
    ELSE handleIncomingNotification(c, data.method, data.params)

\* One iteration of the loop of Connection.Run: the peer has written a
\* Request and the loop decodes it
DecodeRequest(p, id, call) ==
    /\ PeerCanSend(p)
    /\ sent.events < MaxEvents
    /\ id \in FreshIds(p)
    /\ sent' = [sent EXCEPT !.events = @ + 1, !.reqs[p] = @ + 1]
    /\ processIncomingMessage(p, RequestFrame(id, call[1], call[2]))
    /\ UNCHANGED <<peerClosed, peerAnswered, runState>>
    /\ UNCHANGED <<sendVars, netVars, serialVars>>

\* ... the peer answers a Request it has received and not answered yet
DecodeAnswer(p, id, payload) ==
    /\ PeerCanSend(p)
    /\ id \in ReceivedIds(p) \ peerAnswered[p]
    /\ peerAnswered' = [peerAnswered EXCEPT ![p] = @ \cup {id}]
    /\ processIncomingMessage(p, ResponseFrame(id, payload.err, payload.res))
    /\ UNCHANGED <<peerClosed, sent, runState>>
    /\ UNCHANGED <<sendVars, netVars, serialVars>>

\* ... the peer sends a Response nobody asked for: a second answer, or an
\* answer to a Request it never received
DecodeSpuriousResponse(p, id) ==
    /\ PeerCanSend(p)
    /\ sent.events < MaxEvents
    /\ id \notin ReceivedIds(p) \ peerAnswered[p]
    /\ sent' = [sent EXCEPT !.events = @ + 1]
    /\ processIncomingMessage(p, ResponseFrame(id, SpuriousPayload.err, SpuriousPayload.res))
    /\ UNCHANGED <<peerClosed, peerAnswered, runState>>
    /\ UNCHANGED <<sendVars, netVars, serialVars>>

\* ... the peer sends the Notification $/cancelRequest [id]
DecodeCancel(p, id) ==
    /\ PeerCanSend(p)
    /\ sent.events < MaxEvents
    /\ sent' = [sent EXCEPT !.events = @ + 1, !.cancels = @ + 1]
    /\ processIncomingMessage(p, NotificationFrame("$/cancelRequest", <<Uint(id)>>))
    /\ UNCHANGED <<peerClosed, peerAnswered, runState>>
    /\ UNCHANGED <<sendVars, netVars, serialVars>>

\* Connection.Run returns: the decoder reports end of stream or a read error
RunReturn(c) ==
    /\ runState[c] = "running"
    /\ closed[c] \/ peerClosed[c]
    /\ errLog' = [errLog EXCEPT ![c] = Append(@, "can't read packet")]
    /\ runState' = [runState EXCEPT ![c] = "returned"]
    /\ UNCHANGED <<routerVars, connVars, peerVars, out, closed, tasks>>
    /\ UNCHANGED <<sendVars, netVars, serialVars>>

\* ------------------------------------------------------------------------
\* Router: the routing table
\* ------------------------------------------------------------------------
\* registerMethod that takes over a route that exists
registerMethod_Overwrite(r, method, conn) ==
    [routes |-> MapPut(r, method, conn), err |-> Nil]

\* registerMethod that reports success without inserting the route
registerMethod_NoInsert(r, method, conn) ==
    IF MapHas(r, method)
    THEN [routes |-> r, err |-> ToEncodedError(newRouteAlreadyExistsError(method))]
    ELSE [routes |-> r, err |-> Nil]

\* Router.registerMethod: the new table and the error (Nil when it succeeds)
registerMethod(r, method, conn) ==
    IF MapHas(r, method)
    THEN [routes |-> r, err |-> ToEncodedError(newRouteAlreadyExistsError(method))]
    ELSE [routes |-> MapPut(r, method, conn), err |-> Nil]

\* removeMethodsFromConnection that empties the table
removeMethodsFromConnection_All(r, conn) == EmptyMap

\* removeMethodsFromConnection that removes nothing
removeMethodsFromConnection_Keep(r, conn) == r

\* Router.removeMethodsFromConnection
removeMethodsFromConnection(r, conn) ==
    [m \in {x \in DOMAIN r : r[x] # conn} |-> r[m]]

\* Router.getConnectionForMethod: 0 stands for "not found"
getConnectionForMethod(r, method) ==
    IF MapHas(r, method) THEN r[method] ELSE 0

\* the handler of an internal method ($/version in src/main.go)
InternalHandler(method, params) == [err |-> Nil, res |-> Str("version")]

\* ------------------------------------------------------------------------
\* The request handler of Router.connectionLoop, run by the goroutine of
\* handleIncomingRequest.  pc: start -> (wait -> (cwait ->)) reply
\* ------------------------------------------------------------------------
\* connectionLoop has passed removeMethodsFromConnection for connection c
Terminated(c) == runState[c] \in {"cleaned", "closed"}

TerminatedConns == {c \in Conns : Terminated(c)}

\* the handler returns (result, err) without forwarding.  late records the
\* connections that had terminated when the handler ran.
Return(k, result, err) ==
    /\ tasks' = [tasks EXCEPT ![k].pc = "reply", ![k].late = TerminatedConns,
                              ![k].result = [err |-> err, res |-> result]]
    /\ UNCHANGED <<connVars, out>>

\* SendRequest that reuses the msgid of the Request it forwards
SendRequest_OriginId(k, c, method, params, ok) ==
    LET id == tasks[k].id
    IN
    /\ lastOutRequestsIndex' = [lastOutRequestsIndex EXCEPT ![c] = @ + 1]
    /\ out' = send(out, c, RequestFrame(id, method, params), ok)
    /\ UNCHANGED activeInRequests
    /\ IF ok
       THEN /\ activeOutRequests' = [activeOutRequests EXCEPT ![c] = MapPut(@, id, k)]
            /\ tasks' = [tasks EXCEPT ![k].pc = "wait", ![k].late = TerminatedConns,
                                      ![k].target = c, ![k].tid = id]
       ELSE /\ activeOutRequests' = [activeOutRequests EXCEPT ![c] = MapDelete(@, id)]
            /\ tasks' = [tasks EXCEPT ![k].pc = "reply", ![k].late = TerminatedConns,
                                      ![k].target = c, ![k].result =
                            [res |-> Nil, err |->
                             routerError(ErrCodeFailedToSendRequests,
                                         <<"failed to send request: ", "sending request">>)]]

\* SendRequest that leaves its entry in the table when the write fails
SendRequest_KeepEntry(k, c, method, params, ok) ==
    LET id == (lastOutRequestsIndex[c] + 1) % MsgIdModulus
    IN
    /\ lastOutRequestsIndex' = [lastOutRequestsIndex EXCEPT ![c] = id]
    /\ out' = send(out, c, RequestFrame(id, method, params), ok)
    /\ UNCHANGED activeInRequests
    /\ activeOutRequests' = [activeOutRequests EXCEPT ![c] = MapPut(@, id, k)]
    /\ IF ok
       THEN tasks' = [tasks EXCEPT ![k].pc = "wait", ![k].late = TerminatedConns,
                                   ![k].target = c, ![k].tid = id]
       ELSE tasks' = [tasks EXCEPT ![k].pc = "reply", ![k].late = TerminatedConns,
                                   ![k].target = c, ![k].result =
                         [res |-> Nil, err |->
                          routerError(ErrCodeFailedToSendRequests,
                                      <<"failed to send request: ", "sending request">>)]]

\* Connection.SendRequest on connection c, up to the select: take the next
\* msgid, install the outRequest, write the Request frame
SendRequest(k, c, method, params, ok) ==
    LET id == (lastOutRequestsIndex[c] + 1) % MsgIdModulus
    IN
    /\ lastOutRequestsIndex' = [lastOutRequestsIndex EXCEPT ![c] = id]
    /\ out' = send(out, c, RequestFrame(id, method, params), ok)
    /\ UNCHANGED activeInRequests
    /\ IF ok
       THEN /\ activeOutRequests' = [activeOutRequests EXCEPT ![c] = MapPut(@, id, k)]
            /\ tasks' = [tasks EXCEPT ![k].pc = "wait", ![k].late = TerminatedConns,
                                      ![k].target = c, ![k].tid = id]
       ELSE /\ activeOutRequests' = [activeOutRequests EXCEPT ![c] = MapDelete(@, id)]
            /\ tasks' = [tasks EXCEPT ![k].pc = "reply", ![k].late = TerminatedConns,
                                      ![k].target = c, ![k].result =
                            [res |-> Nil, err |->
                             routerError(ErrCodeFailedToSendRequests,
                                         <<"failed to send request: ", "sending request">>)]]

\* the handler looking a method up in routes before routesInternal
HandlerDispatch_RoutesFirst(k) ==
    LET t == tasks[k]
        c == t.conn
        client == getConnectionForMethod(routes, t.method)
    IN
    /\ t.pc = "start"
    /\ IF t.method = "$/register"
       THEN IF Len(t.params) # 1
            THEN /\ Return(k, Nil, routerError(ErrCodeInvalidParams,
                                   <<"invalid params: only one param is expected">>))
                 /\ UNCHANGED routes
            ELSE IF t.params[1].k # "str"
            THEN /\ Return(k, Nil, routerError(ErrCodeInvalidParams,
                                   <<"invalid params: expected string">>))
                 /\ UNCHANGED routes
            ELSE LET reg == registerMethod(routes, t.params[1].s[1], c)
                 IN  /\ routes' = reg.routes
                     /\ IF reg.err # Nil
                        THEN Return(k, Nil, reg.err)
                        ELSE Return(k, True, Nil)
       ELSE IF t.method = "$/reset"
       THEN IF Len(t.params) # 0
            THEN /\ Return(k, Nil, routerError(ErrCodeInvalidParams,
                                   <<"invalid params: no params are expected">>))
                 /\ UNCHANGED routes
            ELSE /\ routes' = removeMethodsFromConnection(routes, c)
                 /\ Return(k, True, Nil)
       ELSE IF client # 0
       THEN /\ UNCHANGED routes
            /\ \E ok \in WriteOutcomes(client) :
                   SendRequest(k, client, t.method, t.params, ok)
       ELSE IF t.method \in routesInternal
       THEN /\ Return(k, InternalHandler(t.method, t.params).res,
                         InternalHandler(t.method, t.params).err)
            /\ UNCHANGED routes
       ELSE /\ UNCHANGED routes
            /\ Return(k, Nil, routerError(ErrCodeMethodNotAvailable,
                                <<"method ", t.method, " not available">>))
    /\ UNCHANGED <<routesInternal, sendMaxWorkers, peerVars, closed, runState, errLog>>
    /\ UNCHANGED <<sendVars, netVars, serialVars>>

\* the handler with a $/reset that does not look at its params
HandlerDispatch_ResetAnyParams(k) ==
    LET t == tasks[k]
        c == t.conn
    IN
    /\ t.pc = "start"
    /\ IF t.method = "$/register"
       THEN IF Len(t.params) # 1
            THEN /\ Return(k, Nil, routerError(ErrCodeInvalidParams,
                                   <<"invalid params: only one param is expected">>))
                 /\ UNCHANGED routes
            ELSE IF t.params[1].k # "str"
            THEN /\ Return(k, Nil, routerError(ErrCodeInvalidParams,
                                   <<"invalid params: expected string">>))
                 /\ UNCHANGED routes
            ELSE LET reg == registerMethod(routes, t.params[1].s[1], c)
                 IN  /\ routes' = reg.routes
                     /\ IF reg.err # Nil
                        THEN Return(k, Nil, reg.err)
                        ELSE Return(k, True, Nil)
       ELSE IF t.method = "$/reset"
       THEN IF FALSE
            THEN /\ Return(k, Nil, routerError(ErrCodeInvalidParams,
                                   <<"invalid params: no params are expected">>))
                 /\ UNCHANGED routes
            ELSE /\ routes' = removeMethodsFromConnection(routes, c)
                 /\ Return(k, True, Nil)
       ELSE IF t.method \in routesInternal
       THEN /\ Return(k, InternalHandler(t.method, t.params).res,
                         InternalHandler(t.method, t.params).err)
            /\ UNCHANGED routes
       ELSE LET client == getConnectionForMethod(routes, t.method)
            IN  /\ UNCHANGED routes
                /\ IF client = 0
                   THEN Return(k, Nil, routerError(ErrCodeMethodNotAvailable,
                                        <<"method ", t.method, " not available">>))
                   ELSE \E ok \in WriteOutcomes(client) :
                            SendRequest(k, client, t.method, t.params, ok)
    /\ UNCHANGED <<routesInternal, sendMaxWorkers, peerVars, closed, runState, errLog>>
    /\ UNCHANGED <<sendVars, netVars, serialVars>>

\* the handler up to its return or up to the select of SendRequest
HandlerDispatch(k) ==
    LET t == tasks[k]
        c == t.conn
    IN
    /\ t.pc = "start"
    /\ IF t.method = "$/register"
       THEN IF Len(t.params) # 1
            THEN /\ Return(k, Nil, routerError(ErrCodeInvalidParams,
                                   <<"invalid params: only one param is expected">>))
                 /\ UNCHANGED routes
            ELSE IF t.params[1].k # "str"
            THEN /\ Return(k, Nil, routerError(ErrCodeInvalidParams,
                                   <<"invalid params: expected string">>))
                 /\ UNCHANGED routes
            ELSE LET reg == registerMethod(routes, t.params[1].s[1], c)
                 IN  /\ routes' = reg.routes
                     /\ IF reg.err # Nil
                        THEN Return(k, Nil, reg.err)
                        ELSE Return(k, True, Nil)
       ELSE IF t.method = "$/reset"
       THEN IF Len(t.params) # 0
            THEN /\ Return(k, Nil, routerError(ErrCodeInvalidParams,
                                   <<"invalid params: no params are expected">>))
                 /\ UNCHANGED routes
            ELSE /\ routes' = removeMethodsFromConnection(routes, c)
                 /\ Return(k, True, Nil)
       ELSE IF t.method \in routesInternal
       THEN /\ Return(k, InternalHandler(t.method, t.params).res,
                         InternalHandler(t.method, t.params).err)
            /\ UNCHANGED routes
       ELSE LET client == getConnectionForMethod(routes, t.method)
            IN  /\ UNCHANGED routes
                /\ IF client = 0
                   THEN Return(k, Nil, routerError(ErrCodeMethodNotAvailable,
                                        <<"method ", t.method, " not available">>))
                   ELSE \E ok \in WriteOutcomes(client) :
                            SendRequest(k, client, t.method, t.params, ok)
    /\ UNCHANGED <<routesInternal, sendMaxWorkers, peerVars, closed, runState, errLog>>
    /\ UNCHANGED <<sendVars, netVars, serialVars>>

\* SendRequest that returns an error to its caller as soon as ctx is done
HandlerCtxDone_Return(k) ==
    LET t == tasks[k]
        active == MapHas(activeOutRequests[t.target], t.tid)
    IN
    /\ t.pc = "wait"
    /\ t.cancelled
    /\ \E ok \in WriteOutcomes(t.target) :
         out' = IF active
                THEN send(out, t.target,
                          NotificationFrame("$/cancelRequest", <<Uint(t.tid)>>), ok)
                ELSE out
    /\ tasks' = [tasks EXCEPT ![k].pc = "reply", ![k].result =
                    [res |-> Nil, err |->
                     routerError(ErrCodeFailedToSendRequests,
                                 <<"failed to send request: ", "context canceled">>)]]
    /\ UNCHANGED <<routerVars, connVars, peerVars, closed, runState, errLog>>
    /\ UNCHANGED <<sendVars, netVars, serialVars>>

\* SendRequest that sends $/cancelRequest without looking at activeOutRequests
HandlerCtxDone_Always(k) ==
    LET t == tasks[k]
    IN
    /\ t.pc = "wait"
    /\ t.cancelled
    /\ \E ok \in WriteOutcomes(t.target) :
         out' = send(out, t.target,
                     NotificationFrame("$/cancelRequest", <<Uint(t.tid)>>), ok)
    /\ tasks' = [tasks EXCEPT ![k].pc = "cwait"]
    /\ UNCHANGED <<routerVars, connVars, peerVars, closed, runState, errLog>>
    /\ UNCHANGED <<sendVars, netVars, serialVars>>

\* SendRequest that drops its outRequest when ctx is done
HandlerCtxDone_Forget(k) ==
    LET t == tasks[k]
        active == MapHas(activeOutRequests[t.target], t.tid)
    IN
    /\ t.pc = "wait"
    /\ t.cancelled
    /\ \E ok \in WriteOutcomes(t.target) :
         out' = IF active
                THEN send(out, t.target,
                          NotificationFrame("$/cancelRequest", <<Uint(t.tid)>>), ok)
                ELSE out
    /\ activeOutRequests' = [activeOutRequests EXCEPT ![t.target] = MapDelete(@, t.tid)]
    /\ tasks' = [tasks EXCEPT ![k].pc = "cwait"]
    /\ UNCHANGED <<routerVars, activeInRequests, lastOutRequestsIndex, peerVars,
                   closed, runState, errLog>>
    /\ UNCHANGED <<sendVars, netVars, serialVars>>

\* SendRequest that cancels with the msgid of the Request it forwards
HandlerCtxDone_OriginId(k) ==
    LET t == tasks[k]
        active == MapHas(activeOutRequests[t.target], t.tid)
    IN
    /\ t.pc = "wait"
    /\ t.cancelled
    /\ \E ok \in WriteOutcomes(t.target) :
         out' = IF active
                THEN send(out, t.target,
                          NotificationFrame("$/cancelRequest", <<Uint(t.id)>>), ok)
                ELSE out
    /\ tasks' = [tasks EXCEPT ![k].pc = "cwait"]
    /\ UNCHANGED <<routerVars, connVars, peerVars, closed, runState, errLog>>
    /\ UNCHANGED <<sendVars, netVars, serialVars>>

\* the select of SendRequest, case <-ctx.Done(): send $/cancelRequest when
\* the request is still active, then wait for the result
HandlerCtxDone(k) ==
    LET t == tasks[k]
        active == MapHas(activeOutRequests[t.target], t.tid)
    IN
    /\ t.pc = "wait"
    /\ t.cancelled
    /\ \E ok \in WriteOutcomes(t.target) :
         out' = IF active
                THEN send(out, t.target,
                          NotificationFrame("$/cancelRequest", <<Uint(t.tid)>>), ok)
                ELSE out
    /\ tasks' = [tasks EXCEPT ![k].pc = "cwait"]
    /\ UNCHANGED <<routerVars, connVars, peerVars, closed, runState, errLog>>
    /\ UNCHANGED <<sendVars, netVars, serialVars>>

\* the handler has a result: it returned at once, or SendRequest received
\* the outResponse on resultChan
HasResult(t) ==
    \/ t.pc = "reply"
    \/ t.pc \in {"wait", "cwait"} /\ t.chan # <<>>

\* a handler result brought to the convention "an error has no result"
HandlerResult_Normalised(t) ==
    LET r == IF t.pc = "reply" THEN t.result ELSE Head(t.chan)
    IN  IF r.err # Nil THEN [err |-> r.err, res |-> Nil] ELSE r

HandlerResult(t) == IF t.pc = "reply" THEN t.result ELSE Head(t.chan)

\* the goroutine of handleIncomingRequest without the check that the entry
\* is still this request's
HandlerReply_NoCheck(k) ==
    LET t == tasks[k]
        c == t.conn
        r == HandlerResult(t)
    IN
    /\ HasResult(t)
    /\ activeInRequests' = [activeInRequests EXCEPT ![c] = MapDelete(@, t.id)]
    /\ \E ok \in WriteOutcomes(c) :
         /\ tasks' = [tasks EXCEPT ![k].pc = IF ok THEN "done" ELSE "failed",
                                   ![k].cancelled = TRUE,
                                   ![k].result = r, ![k].chan = <<>>]
         /\ out' = send(out, c, ResponseFrame(t.id, r.err, r.res), ok)
         /\ closed' = IF ok THEN closed ELSE [closed EXCEPT ![c] = TRUE]
         /\ errLog' = IF ok THEN errLog
                      ELSE [errLog EXCEPT ![c] = Append(@, "error sending response")]
    /\ UNCHANGED <<routerVars, activeOutRequests, lastOutRequestsIndex, peerVars,
                   runState>>
    /\ UNCHANGED <<sendVars, netVars, serialVars>>

\* handleIncomingRequest after the handler has returned: drop the entry if it
\* is still this request's, and write the Response.  pc: done (written),
\* failed (the write failed), dropped (superseded, nothing written)
HandlerReply(k) ==
    LET t == tasks[k]
        c == t.conn
        r == HandlerResult(t)
        existing == IF MapHas(activeInRequests[c], t.id) THEN activeInRequests[c][t.id] ELSE 0
    IN
    /\ HasResult(t)
    /\ IF existing # k
       THEN /\ tasks' = [tasks EXCEPT ![k].pc = "dropped", ![k].result = r, ![k].chan = <<>>]
            /\ UNCHANGED <<activeInRequests, out, closed, errLog>>
       ELSE /\ activeInRequests' = [activeInRequests EXCEPT ![c] = MapDelete(@, t.id)]
            /\ \E ok \in WriteOutcomes(c) :
                 /\ tasks' = [tasks EXCEPT ![k].pc = IF ok THEN "done" ELSE "failed",
                                           ![k].cancelled = TRUE,
                                           ![k].result = r, ![k].chan = <<>>]
                 /\ out' = send(out, c, ResponseFrame(t.id, r.err, r.res), ok)
                 /\ closed' = IF ok THEN closed ELSE [closed EXCEPT ![c] = TRUE]
                 /\ errLog' = IF ok THEN errLog
                              ELSE [errLog EXCEPT ![c] = Append(@, "error sending response")]
    /\ UNCHANGED <<routerVars, activeOutRequests, lastOutRequestsIndex, peerVars,
                   runState>>
    /\ UNCHANGED <<sendVars, netVars, serialVars>>

\* ------------------------------------------------------------------------
\* Router.connectionLoop after Run has returned
\* ------------------------------------------------------------------------
ConnCleanup(c) ==
    /\ runState[c] = "returned"
    /\ routes' = removeMethodsFromConnection(routes, c)
    /\ runState' = [runState EXCEPT ![c] = "cleaned"]
    /\ UNCHANGED <<routesInternal, sendMaxWorkers, connVars, peerVars, out,
                   closed, tasks, errLog>>
    /\ UNCHANGED <<sendVars, netVars, serialVars>>

ConnClose(c) ==
    /\ runState[c] = "cleaned"
    /\ closed' = [closed EXCEPT ![c] = TRUE]
    /\ runState' = [runState EXCEPT ![c] = "closed"]
    /\ UNCHANGED <<routerVars, connVars, peerVars, out, tasks, errLog>>
    /\ UNCHANGED <<sendVars, netVars, serialVars>>

\* ------------------------------------------------------------------------
Next ==
    \/ \E p \in Conns, id \in PeerIds, call \in PeerCalls : DecodeRequest(p, id, call)
    \/ \E p \in Conns, id \in 1 .. MaxEvents : \E pl \in PeerPayloads(id) : DecodeAnswer(p, id, pl)
    \/ \E p \in Conns, id \in 1 .. MaxEvents : DecodeSpuriousResponse(p, id)
    \/ \E p \in Conns, id \in PeerIds : DecodeCancel(p, id)
    \/ \E p \in Conns : PeerClose(p)
    \/ \E c \in Conns : RunReturn(c)
    \/ \E c \in Conns : ConnCleanup(c)
    \/ \E c \in Conns : ConnClose(c)
    \/ \E k \in TaskIds : HandlerDispatch(k)
    \/ \E k \in TaskIds : HandlerCtxDone(k)
    \/ \E k \in TaskIds : HandlerReply(k)

Spec == Init /\ [][Next]_vars

\* The same program with peers that call $/register and $/reset with params
\* of the wrong length or type
BadCalls ==
    {<<"$/register", <<>>>>,
     <<"$/register", <<Uint(1)>>>>,
     <<"$/register", <<Str("ping"), Str("ping")>>>>,
     <<"$/reset", <<Str("ping")>>>>}

NextParams ==
    \/ \E p \in Conns, id \in PeerIds, call \in BadCalls : DecodeRequest(p, id, call)
    \/ Next

SpecParams == Init /\ [][NextParams]_vars

\* The program with peers that register methods, call them with params and
\* answer with any combination of error and result: one nil, both nil, both
\* present
ParamCalls ==
    {<<"$/register", <<Str(m)>>>> : m \in MethodNames}
    \cup {<<m, <<Uint(5), Str("a")>>>> : m \in MethodNames}

OddPayloads(id) == {[err |-> Nil, res |-> Nil],
                   [err |-> Str("failed"), res |-> Uint(id)]}

NextPayloads ==
    \/ \E p \in Conns, id \in PeerIds, call \in ParamCalls : DecodeRequest(p, id, call)
    \/ \E p \in Conns, id \in 1 .. MaxEvents :
          \E pl \in PeerPayloads(id) \cup OddPayloads(id) : DecodeAnswer(p, id, pl)
    \/ \E p \in Conns : PeerClose(p)
    \/ \E c \in Conns : RunReturn(c)
    \/ \E c \in Conns : ConnCleanup(c)
    \/ \E c \in Conns : ConnClose(c)
    \/ \E k \in TaskIds : HandlerDispatch(k)
    \/ \E k \in TaskIds : HandlerCtxDone(k)
    \/ \E k \in TaskIds : HandlerReply(k)

SpecPayloads == Init /\ [][NextPayloads]_vars

\* The same program with peers that also use the names of the internal and
\* intrinsic methods
NextInternal ==
    \/ \E p \in Conns, id \in PeerIds, call \in InternalCalls : DecodeRequest(p, id, call)
    \/ Next

SpecInternal == Init /\ [][NextInternal]_vars

\* The program after the msgid counter of a connection has wrapped.  Peer 2
\* has registered "ping"; peer 1 asked for "ping" with msgid 7, forwarded to
\* peer 2 as Request 1, which peer 2 has not answered; peer 1 then asked
\* MsgIdModulus - 1 more times, each with msgid 8, and peer 2 answered each of
\* those (forwarded under the msgids WrapIds), so the counter of connection 2
\* is back at 0.  sent.events bounds what the peers send from here on: of the
\* frames sent so far it counts one, the Request that is still outstanding.
WrapIds == [i \in 1 .. MsgIdModulus - 1 |-> (1 + i) % MsgIdModulus]

DoneTask(c, id, method, params, target, tid, res) ==
    [NewTask(c, id, method, params) EXCEPT
        !.pc = "done", !.cancelled = TRUE, !.target = target, !.tid = tid,
        !.result = [err |-> Nil, res |-> res]]

InitWrap ==
    /\ routes = ("ping" :> 2)
    /\ routesInternal = InternalNames
    /\ sendMaxWorkers = perConnMaxWorkers
    /\ activeInRequests = [c \in Conns |-> IF c = 1 THEN (7 :> 2) ELSE EmptyMap]
    /\ activeOutRequests = [c \in Conns |-> IF c = 2 THEN (1 :> 2) ELSE EmptyMap]
    /\ lastOutRequestsIndex = [c \in Conns |-> 0]
    /\ closed = [c \in Conns |-> FALSE]
    /\ errLog = [c \in Conns |-> <<>>]
    /\ peerClosed = [c \in Conns |-> FALSE]
    /\ runState = [c \in Conns |-> "running"]
    /\ tasks = <<DoneTask(2, 7, "$/register", <<Str("ping")>>, 0, 0, True),
                 [NewTask(1, 7, "ping", <<>>) EXCEPT
                     !.pc = "wait", !.target = 2, !.tid = 1]>>
                \o [i \in 1 .. MsgIdModulus - 1 |->
                      DoneTask(1, 8, "ping", <<>>, 2, WrapIds[i], Uint(WrapIds[i]))]
    /\ out = [c \in Conns |->
                IF c = 2
                THEN <<ResponseFrame(7, Nil, True), RequestFrame(1, "ping", <<>>)>>
                     \o [i \in 1 .. MsgIdModulus - 1 |->
                           RequestFrame(WrapIds[i], "ping", <<>>)]
                ELSE IF c = 1
                THEN [i \in 1 .. MsgIdModulus - 1 |->
                         ResponseFrame(8, Nil, Uint(WrapIds[i]))]
                ELSE <<>>]
    /\ peerAnswered = [c \in Conns |->
                         IF c = 2 THEN {WrapIds[i] : i \in 1 .. MsgIdModulus - 1}
                         ELSE {}]
    /\ sent = [events |-> 1, cancels |-> 0,
               reqs |-> [c \in Conns |-> IF c = 1 THEN MsgIdModulus
                                         ELSE IF c = 2 THEN 1 ELSE 0]]
    /\ outMutex = 0
    /\ wire = <<>>
    /\ senders = <<>>
    /\ NetInit
    /\ SerialInit

SpecWrap == InitWrap /\ [][Next]_vars

\* ------------------------------------------------------------------------
\* Connection.Run on the value the decoder returns, before it is known to be
\* a well-formed envelope.  An array is Val("array", <<its elements>>, 0); a
\* negative integer has k = "int".
\* ------------------------------------------------------------------------
\* the envelopes with a defect a run may contain
MaxMalformed == 1

Arr(xs) == Val("array", xs, 0)
IntVal(i) == Val(IF i < 0 THEN "int" ELSE "uint", <<>>, i)

ToIntOk(v) == v.k \in {"int", "uint"}

\* processIncomingMessage that accepts a Request of more than 4 elements
checkEnvelope_LongRequest(data) ==
    IF Len(data) < 3
    THEN "invalid packet, expected array with at least 3 elements"
    ELSE IF ~ToIntOk(data[1])
    THEN "invalid packet, expected int as first element"
    ELSE IF data[1].n = messageTypeRequest
    THEN IF Len(data) < 4
         THEN "invalid request, expected array with 4 elements"
         ELSE IF ~ToUintOk(data[2])
         THEN "invalid request, expected msgid (uint) as second element"
         ELSE IF data[3].k # "str"
         THEN "invalid request, expected method (string) as third element"
         ELSE IF data[4].k # "array"
         THEN "invalid request, expected params (array) as fourth element"
         ELSE ""
    ELSE IF data[1].n = messageTypeResponse
    THEN IF Len(data) # 4
         THEN "invalid response, expected array with 4 elements"
         ELSE IF ~ToUintOk(data[2])
         THEN "invalid response, expected msgid (uint) as second element"
         ELSE ""
    ELSE IF data[1].n = messageTypeNotification
    THEN IF Len(data) # 3
         THEN "invalid notification, expected array with 3 elements"
         ELSE IF data[2].k # "str"
         THEN "invalid notification, expected method (string) as second element"
         ELSE IF data[3].k # "array"
         THEN "invalid notification, expected params (array) as third element"
         ELSE ""
    ELSE "invalid packet, expected request, response or notification"

\* Connection.processIncomingMessage, the checks: the error it returns, ""
\* when it goes on to a handle function
checkEnvelope(data) ==
    IF Len(data) < 3
    THEN "invalid packet, expected array with at least 3 elements"
    ELSE IF ~ToIntOk(data[1])
    THEN "invalid packet, expected int as first element"
    ELSE IF data[1].n = messageTypeRequest
    THEN IF Len(data) # 4
         THEN "invalid request, expected array with 4 elements"
         ELSE IF ~ToUintOk(data[2])
         THEN "invalid request, expected msgid (uint) as second element"
         ELSE IF data[3].k # "str"
         THEN "invalid request, expected method (string) as third element"
         ELSE IF data[4].k # "array"
         THEN "invalid request, expected params (array) as fourth element"
         ELSE ""
    ELSE IF data[1].n = messageTypeResponse
    THEN IF Len(data) # 4
         THEN "invalid response, expected array with 4 elements"
         ELSE IF ~ToUintOk(data[2])
         THEN "invalid response, expected msgid (uint) as second element"
         ELSE ""
    ELSE IF data[1].n = messageTypeNotification
    THEN IF Len(data) # 3
         THEN "invalid notification, expected array with 3 elements"
         ELSE IF data[2].k # "str"
         THEN "invalid notification, expected method (string) as second element"
         ELSE IF data[3].k # "array"
         THEN "invalid notification, expected params (array) as third element"
         ELSE ""
    ELSE "invalid packet, expected request, response or notification"

\* the fields processIncomingMessage hands to the handle function
Envelope(data) ==
    IF data[1].n = messageTypeRequest
    THEN RequestFrame(data[2].n, data[3].s[1], data[4].s)
    ELSE IF data[1].n = messageTypeResponse
    THEN ResponseFrame(data[2].n, data[3], data[4])
    ELSE NotificationFrame(data[2].s[1], data[3].s)

\* what a peer may put on the stream as one MessagePack value: envelopes
\* that are well formed, and one for every check of Run and
\* processIncomingMessage
RawEnvelopes ==
    { Arr(<<IntVal(0), IntVal(7), Str("ping"), Arr(<<>>)>>),
      Arr(<<IntVal(1), IntVal(1), Nil, IntVal(1)>>),
      Arr(<<IntVal(2), Str("$/cancelRequest"), Arr(<<IntVal(7)>>)>>),
      Str("ping"),
      Arr(<<IntVal(0), IntVal(7)>>),
      Arr(<<Str("0"), IntVal(7), Str("ping"), Arr(<<>>)>>),
      Arr(<<IntVal(3), IntVal(7), Str("ping"), Arr(<<>>)>>),
      Arr(<<IntVal(0), IntVal(7), Str("ping")>>),
      Arr(<<IntVal(0), IntVal(7), Str("ping"), Arr(<<>>), Nil>>),
      Arr(<<IntVal(0), IntVal(-7), Str("ping"), Arr(<<>>)>>),
      Arr(<<IntVal(0), IntVal(7), IntVal(1), Arr(<<>>)>>),
      Arr(<<IntVal(0), IntVal(7), Str("ping"), Nil>>),
      Arr(<<IntVal(1), IntVal(1), Nil>>),
      Arr(<<IntVal(1), Str("1"), Nil, IntVal(1)>>),
      Arr(<<IntVal(2), Str("$/cancelRequest"), Arr(<<IntVal(7)>>), Nil>>),
      Arr(<<IntVal(2), IntVal(7), Arr(<<IntVal(7)>>)>>),
      Arr(<<IntVal(2), Str("$/cancelRequest"), IntVal(7)>>) }

\* the error Run reports for the decoded value v, "" when v is dispatched
runError(v) ==
    IF v.k # "array"
    THEN "invalid packet, expected array"
    ELSE checkEnvelope(v.s)

\* the envelope errors the error handler of connection c has been given
EnvelopeErrors(c) ==
    {j \in DOMAIN errLog[c] :
        \E v \in RawEnvelopes : runError(v) # "" /\ errLog[c][j] = runError(v)}

\* One iteration of the loop of Connection.Run on an arbitrary decoded value
DecodeRaw(p, v) ==
    LET e == runError(v)
        data == Envelope(v.s)
    IN
    /\ PeerCanSend(p)
    /\ sent.events < MaxEvents
    /\ e # "" => \A c \in Conns : Cardinality(EnvelopeErrors(c)) < MaxMalformed
    /\ IF e # ""
       THEN /\ errLog' = [errLog EXCEPT ![p] = Append(@, e)]
            /\ sent' = [sent EXCEPT !.events = @ + 1]
            /\ UNCHANGED <<routerVars, connVars, out, closed, tasks, peerAnswered>>
       ELSE /\ processIncomingMessage(p, data)
            /\ sent' = [sent EXCEPT
                          !.events = @ + 1,
                          !.reqs[p] = IF data.type = messageTypeRequest THEN @ + 1 ELSE @,
                          !.cancels = IF data.type = messageTypeNotification THEN @ + 1 ELSE @]
            /\ peerAnswered' = IF data.type = messageTypeResponse
                               THEN [peerAnswered EXCEPT ![p] = @ \cup {data.id}]
                               ELSE peerAnswered
    /\ UNCHANGED <<peerClosed, runState>>
    /\ UNCHANGED <<sendVars, netVars, serialVars>>

NextRaw ==
    \/ \E p \in Conns, v \in RawEnvelopes : DecodeRaw(p, v)
    \/ Next

SpecRaw == Init /\ [][NextRaw]_vars

\* ------------------------------------------------------------------------
\* Notifications other than $/cancelRequest.  handleIncomingNotification
\* starts a goroutine that runs the notification handler of
\* Router.connectionLoop; the goroutine is a task with msgid 0 and
\* pc: nstart -> ndone.
\* ------------------------------------------------------------------------
NotifyCalls ==
    {<<m, <<Uint(5), Str("a")>>>> : m \in MethodNames}
    \cup {<<m, <<>>>> : m \in InternalNames}

\* Connection.handleIncomingNotification for a method that is not
\* $/cancelRequest
startNotificationHandler(c, method, params) ==
    /\ method # "$/cancelRequest"
    /\ tasks' = Append(tasks, [NewTask(c, 0, method, params) EXCEPT !.pc = "nstart"])
    /\ UNCHANGED <<routerVars, connVars, out, closed, errLog>>

\* One iteration of the loop of Connection.Run: the peer has written a
\* Notification and the loop decodes it
DecodeNotification(p, call) ==
    /\ PeerCanSend(p)
    /\ sent.events < MaxEvents
    /\ sent' = [sent EXCEPT !.events = @ + 1]
    /\ startNotificationHandler(p, call[1], call[2])
    /\ UNCHANGED <<peerClosed, peerAnswered, runState>>
    /\ UNCHANGED <<sendVars, netVars, serialVars>>

\* the notification handler that answers the sender when no route matches
NotificationDispatch_Reply(k) ==
    LET t == tasks[k]
        client == getConnectionForMethod(routes, t.method)
    IN
    /\ t.pc = "nstart"
    /\ IF t.method \in routesInternal
       THEN /\ tasks' = [tasks EXCEPT ![k].pc = "ndone", ![k].late = TerminatedConns]
            /\ UNCHANGED out
       ELSE IF client = 0
       THEN /\ tasks' = [tasks EXCEPT ![k].pc = "ndone", ![k].late = TerminatedConns]
            /\ out' = send(out, t.conn, ResponseFrame(0,
                          routerError(ErrCodeMethodNotAvailable,
                                      <<"method ", t.method, " not available">>), Nil), TRUE)
       ELSE /\ tasks' = [tasks EXCEPT ![k].pc = "ndone", ![k].late = TerminatedConns,
                                      ![k].target = client]
            /\ \E ok \in WriteOutcomes(client) :
                   out' = send(out, client, NotificationFrame(t.method, t.params), ok)
    /\ UNCHANGED <<routerVars, connVars, peerVars, closed, runState, errLog>>
    /\ UNCHANGED <<sendVars, netVars, serialVars>>

\* the notification handler with the intrinsic methods of the request handler
NotificationDispatch_Intrinsics(k) ==
    LET t == tasks[k]
        client == getConnectionForMethod(routes, t.method)
    IN
    /\ t.pc = "nstart"
    /\ IF t.method = "$/reset"
       THEN /\ routes' = removeMethodsFromConnection(routes, t.conn)
            /\ tasks' = [tasks EXCEPT ![k].pc = "ndone", ![k].late = TerminatedConns]
            /\ UNCHANGED out
       ELSE IF t.method = "$/register" /\ Len(t.params) = 1 /\ t.params[1].k = "str"
       THEN /\ routes' = registerMethod(routes, t.params[1].s[1], t.conn).routes
            /\ tasks' = [tasks EXCEPT ![k].pc = "ndone", ![k].late = TerminatedConns]
            /\ UNCHANGED out
       ELSE IF t.method \in routesInternal
       THEN /\ tasks' = [tasks EXCEPT ![k].pc = "ndone", ![k].late = TerminatedConns]
            /\ UNCHANGED <<out, routes>>
       ELSE IF client = 0
       THEN /\ tasks' = [tasks EXCEPT ![k].pc = "ndone", ![k].late = TerminatedConns]
            /\ UNCHANGED <<out, routes>>
       ELSE /\ tasks' = [tasks EXCEPT ![k].pc = "ndone", ![k].late = TerminatedConns,
                                      ![k].target = client]
            /\ UNCHANGED routes
            /\ \E ok \in WriteOutcomes(client) :
                   out' = send(out, client, NotificationFrame(t.method, t.params), ok)
    /\ UNCHANGED <<routesInternal, sendMaxWorkers, connVars, peerVars, closed,
                   runState, errLog>>
    /\ UNCHANGED <<sendVars, netVars, serialVars>>

\* the notification handler of Router.connectionLoop
NotificationDispatch(k) ==
    LET t == tasks[k]
        client == getConnectionForMethod(routes, t.method)
    IN
    /\ t.pc = "nstart"
    /\ IF t.method \in routesInternal
       THEN /\ tasks' = [tasks EXCEPT ![k].pc = "ndone", ![k].late = TerminatedConns]
            /\ UNCHANGED out
       ELSE IF client = 0
       THEN /\ tasks' = [tasks EXCEPT ![k].pc = "ndone", ![k].late = TerminatedConns]
            /\ UNCHANGED out
       ELSE /\ tasks' = [tasks EXCEPT ![k].pc = "ndone", ![k].late = TerminatedConns,
                                      ![k].target = client]
            /\ \E ok \in WriteOutcomes(client) :
                   out' = send(out, client, NotificationFrame(t.method, t.params), ok)
    /\ UNCHANGED <<routerVars, connVars, peerVars, closed, runState, errLog>>
    /\ UNCHANGED <<sendVars, netVars, serialVars>>

NextNotify ==
    \/ \E p \in Conns, call \in NotifyCalls : DecodeNotification(p, call)
    \/ \E k \in TaskIds : NotificationDispatch(k)
    \/ Next

SpecNotify == Init /\ [][NextNotify]_vars

\* The same program with peers that use the names of the intrinsic methods
\* in Notifications, and that register "$/cancelRequest" as a method.
IntrinsicRouteCalls ==
    {<<"$/register", <<Str("$/cancelRequest")>>>>,
     <<"$/register", <<Str("ping")>>>>,
     <<"$/cancelRequest", <<Uint(7)>>>>}
IntrinsicNotifications ==
    {<<"$/cancelRequest", <<Uint(i)>>>> : i \in PeerIds}
    \cup {<<"$/register", <<Str("pong")>>>>, <<"$/reset", <<>>>>}

\* handleIncomingNotification that goes on to the notification handler after
\* it has dealt with a $/cancelRequest
handleIncomingNotificationOf_FallThrough(c, method, params) ==
    IF method = "$/cancelRequest"
    THEN /\ tasks' = Append(
                IF Len(params) = 1 /\ ToUintOk(params[1])
                   /\ MapHas(activeInRequests[c], params[1].n)
                THEN [tasks EXCEPT ![activeInRequests[c][params[1].n]].cancelled = TRUE]
                ELSE tasks,
                [NewTask(c, 0, method, params) EXCEPT !.pc = "nstart"])
         /\ UNCHANGED <<routerVars, connVars, out, closed, errLog>>
    ELSE startNotificationHandler(c, method, params)

\* Connection.handleIncomingNotification, both branches
handleIncomingNotificationOf(c, method, params) ==
    IF method = "$/cancelRequest"
    THEN handleIncomingNotification(c, method, params)
    ELSE startNotificationHandler(c, method, params)

\* One iteration of the loop of Connection.Run: the peer has written a
\* Notification of any method and the loop decodes it
DecodeIntrinsicNotification(p, call) ==
    /\ PeerCanSend(p)
    /\ sent.events < MaxEvents
    /\ sent' = [sent EXCEPT !.events = @ + 1,
                            !.cancels = IF call[1] = "$/cancelRequest" THEN @ + 1 ELSE @]
    /\ handleIncomingNotificationOf(p, call[1], call[2])
    /\ UNCHANGED <<peerClosed, peerAnswered, runState>>
    /\ UNCHANGED <<sendVars, netVars, serialVars>>

NextIntrinsic ==
    \/ \E p \in Conns, id \in PeerIds, call \in IntrinsicRouteCalls :
          DecodeRequest(p, id, call)
    \/ \E p \in Conns, call \in IntrinsicNotifications :
          DecodeIntrinsicNotification(p, call)
    \/ \E p \in Conns, id \in 1 .. MaxEvents : \E pl \in PeerPayloads(id) :
          DecodeAnswer(p, id, pl)
    \/ \E p \in Conns : PeerClose(p)
    \/ \E c \in Conns : RunReturn(c)
    \/ \E c \in Conns : ConnCleanup(c)
    \/ \E c \in Conns : ConnClose(c)
    \/ \E k \in TaskIds : HandlerDispatch(k)
    \/ \E k \in TaskIds : HandlerCtxDone(k)
    \/ \E k \in TaskIds : HandlerReply(k)
    \/ \E k \in TaskIds : NotificationDispatch(k)

SpecIntrinsic == Init /\ [][NextIntrinsic]_vars

\* ------------------------------------------------------------------------
\* Fairness: the Go scheduler lets every goroutine that can take a step take
\* it (the loop of connectionLoop, the handler goroutines), and a peer that
\* is connected answers the Requests it has received.  Nothing obliges a peer
\* to send a Request or a Notification, nor to close.
\* ------------------------------------------------------------------------
LoopStep(c) == RunReturn(c) \/ ConnCleanup(c) \/ ConnClose(c)

HandlerStep(k) ==
    /\ k \in TaskIds
    /\ (HandlerDispatch(k) \/ HandlerCtxDone(k) \/ HandlerReply(k))

PeerAnswers(p) ==
    \E id \in 1 .. MaxEvents : \E pl \in PeerPayloads(id) : DecodeAnswer(p, id, pl)

FairSpec ==
    /\ Spec
    /\ \A c \in Conns : WF_vars(LoopStep(c)) /\ WF_vars(PeerAnswers(c))
    /\ \A k \in 1 .. MaxEvents : WF_vars(HandlerStep(k))

\* ------------------------------------------------------------------------
\* Connection.send at the level of the encoder's writes.  Encode puts a
\* frame on the stream in several Write calls (chunks).  The goroutines that
\* call send on one connection (handlers writing Responses, SendRequest,
\* SendNotification) run concurrently.
\* ------------------------------------------------------------------------
\* goroutines that call send on the connection in one run
NSenders == 3
\* Write calls Encode makes for one frame
FrameChunks == 2

FrameTypes == {messageTypeRequest, messageTypeResponse, messageTypeNotification}

\* what the stream holds after a Write has failed: nothing follows it
Broken == [w |-> 0, type |-> 0, i |-> 0]
StreamBroken == wire # <<>> /\ wire[Len(wire)] = Broken

mainVars == <<routerVars, connVars, peerVars, out, closed, runState, tasks, errLog>>

\* a goroutine calls c.send(type, ...)
sendCall(type) ==
    /\ Len(senders) < NSenders
    /\ senders' = Append(senders, [type |-> type, pc |-> "lock", n |-> 0, err |-> FALSE])
    /\ UNCHANGED <<outMutex, wire, mainVars, netVars, serialVars>>

\* send that does not wait for outMutex
sendLock_NoMutex(w) ==
    /\ senders[w].pc = "lock"
    /\ outMutex' = w
    /\ senders' = [senders EXCEPT ![w].pc = "encode"]
    /\ UNCHANGED <<wire, mainVars, netVars, serialVars>>

\* c.outMutex.Lock()
sendLock(w) ==
    /\ senders[w].pc = "lock"
    /\ outMutex = 0
    /\ outMutex' = w
    /\ senders' = [senders EXCEPT ![w].pc = "encode"]
    /\ UNCHANGED <<wire, mainVars, netVars, serialVars>>

\* c.outEncoder.Encode(data): one Write of the encoder succeeds
EncodeWrite(w) ==
    /\ senders[w].pc = "encode"
    /\ senders[w].n < FrameChunks
    /\ ~StreamBroken
    /\ wire' = Append(wire, [w |-> w, type |-> senders[w].type, i |-> senders[w].n + 1])
    /\ senders' = [senders EXCEPT ![w].n = @ + 1]
    /\ UNCHANGED <<outMutex, mainVars, netVars, serialVars>>

\* ... one Write of the encoder fails: Encode returns the error
EncodeFail(w) ==
    /\ senders[w].pc = "encode"
    /\ senders[w].n < FrameChunks
    /\ wire' = IF StreamBroken THEN wire ELSE Append(wire, Broken)
    /\ senders' = [senders EXCEPT ![w].pc = "unlock", ![w].err = TRUE]
    /\ UNCHANGED <<outMutex, mainVars, netVars, serialVars>>

\* ... Encode returns nil
EncodeReturn(w) ==
    /\ senders[w].pc = "encode"
    /\ senders[w].n = FrameChunks
    /\ senders' = [senders EXCEPT ![w].pc = "unlock"]
    /\ UNCHANGED <<outMutex, wire, mainVars, netVars, serialVars>>

\* c.outMutex.Unlock() and the return of send
sendUnlock(w) ==
    /\ senders[w].pc = "unlock"
    /\ outMutex' = 0
    /\ senders' = [senders EXCEPT ![w].pc = "return"]
    /\ UNCHANGED <<wire, mainVars, netVars, serialVars>>

NextSend ==
    \/ \E type \in FrameTypes : sendCall(type)
    \/ \E w \in DOMAIN senders : sendLock(w)
    \/ \E w \in DOMAIN senders : EncodeWrite(w)
    \/ \E w \in DOMAIN senders : EncodeFail(w)
    \/ \E w \in DOMAIN senders : EncodeReturn(w)
    \/ \E w \in DOMAIN senders : sendUnlock(w)

SpecSend == Init /\ [][NextSend]_vars

\* ------------------------------------------------------------------------
\* The network API: package networkapi (src/unnamed/part_011).  Register
\* adds its handlers to the router as internal methods, and a handler call
\* runs on the goroutine of the Request it serves, so calls overlap.  What
\* a handler does under lock.Lock() is exclusive and is one step.  A handler
\* under lock.RLock() shares the lock with the other readers: it is a step
\* up to its first access to a map that readers modify, and a step from
\* there on.
\* ------------------------------------------------------------------------
\* nextConnectionID is an atomic.Uint32: Add(1) wraps from 2^32 - 1 to 0.
\* The width is scaled down to this modulus.
IdModulus == 3
\* handler calls started in one run
MaxCalls == 5

Ids == 0 .. IdModulus - 1
Hosts == {"h1", "h2", "nohost"}
\* net.ResolveUDPAddr fails for a host that does not resolve
Resolvable(host) == host # "nohost"
Bin(b) == Val("bin", b, 0)

\* the params arrays the callers pass
BadIdParams == {<<>>, <<Str("x")>>}
IdParams == {<<Uint(i)>> : i \in Ids} \cup BadIdParams
ConnectParams ==
    {<<Str("h1"), Uint(1)>>, <<>>, <<Uint(1), Uint(1)>>, <<Str("h1"), Str("p")>>}
BeginPacketParams ==
    {<<Uint(i), Str(h), Uint(1)>> : i \in Ids, h \in Hosts}
    \cup {<<>>, <<Str("x"), Str("h1"), Uint(1)>>, <<Uint(1), Uint(1), Uint(1)>>,
          <<Uint(1), Str("h1"), Str("p")>>}
WriteParams ==
    {<<Uint(i), d>> : i \in Ids, d \in {Str("a"), Bin(<<"b", "c">>)}}
    \cup {<<>>, <<Str("x"), Str("a")>>, <<Uint(1), Uint(1)>>}

CanStart == ~fatal /\ started < MaxCalls
\* the goroutine that serves the next Request
FreeCaller(g) ==
    /\ netCalls[g].pc = "idle"
    /\ \A h \in Callers : h < g => netCalls[h].pc # "idle"
\* lock.Lock() returns once no reader holds the lock
LockFree == lock = {}

Returns(method, params, result, err) ==
    lastReturn' = [method |-> method, params |-> params,
                   result |-> result, err |-> err]

\* takeLockAndGenerateNextID: the first id after n that is neither a live
\* TCP connection nor a live listener
RECURSIVE generateNextID(_)
generateNextID(n) ==
    LET id == (n + 1) % IdModulus
    IN  IF id \notin liveConnections /\ id \notin liveListeners THEN id
        ELSE generateNextID(id)
\* the loop of takeLockAndGenerateNextID ends only when such an id exists
IdAvailable == \E id \in Ids : id \notin liveConnections /\ id \notin liveListeners

tcpConnect(params, dialed) ==
    /\ CanStart
    /\ started' = started + 1
    /\ IF Len(params) # 2
       THEN /\ Returns("tcp/connect", params, Nil,
                       routerError(1, <<"Invalid number of parameters, expected server address and port">>))
            /\ UNCHANGED <<liveConnections, nextConnectionID>>
       ELSE IF params[1].k # "str"
       THEN /\ Returns("tcp/connect", params, Nil,
                       routerError(1, <<"Invalid parameter type, expected string for server address">>))
            /\ UNCHANGED <<liveConnections, nextConnectionID>>
       ELSE IF ~ToUintOk(params[2])
       THEN /\ Returns("tcp/connect", params, Nil,
                       routerError(1, <<"Invalid parameter type, expected uint16 for server port">>))
            /\ UNCHANGED <<liveConnections, nextConnectionID>>
       ELSE IF ~dialed
       THEN /\ Returns("tcp/connect", params, Nil,
                       routerError(2, <<"Failed to connect to server: ", "error">>))
            /\ UNCHANGED <<liveConnections, nextConnectionID>>
       ELSE /\ LockFree
            /\ IdAvailable
            /\ LET id == generateNextID(nextConnectionID)
               IN  /\ liveConnections' = liveConnections \cup {id}
                   /\ nextConnectionID' = id
                   /\ Returns("tcp/connect", params, Uint(id), Nil)
    /\ UNCHANGED <<lock, liveListeners, liveUdpConnections, udpWriteTargets,
                   udpWriteBuffers, netCalls, datagrams, fatal,
                   udpReadBuffers>>
    /\ UNCHANGED <<mainVars, sendVars, serialVars>>

tcpListen(params, listening) ==
    /\ CanStart
    /\ started' = started + 1
    /\ IF Len(params) # 2
       THEN /\ Returns("tcp/listen", params, Nil,
                       routerError(1, <<"Invalid number of parameters, expected listen address and port">>))
            /\ UNCHANGED <<liveListeners, nextConnectionID>>
       ELSE IF params[1].k # "str"
       THEN /\ Returns("tcp/listen", params, Nil,
                       routerError(1, <<"Invalid parameter type, expected string for listen address">>))
            /\ UNCHANGED <<liveListeners, nextConnectionID>>
       ELSE IF ~ToUintOk(params[2])
       THEN /\ Returns("tcp/listen", params, Nil,
                       routerError(1, <<"Invalid parameter type, expected uint16 for listen port">>))
            /\ UNCHANGED <<liveListeners, nextConnectionID>>
       ELSE IF ~listening
       THEN /\ Returns("tcp/listen", params, Nil,
                       routerError(2, <<"Failed to start listening on address: ", "error">>))
            /\ UNCHANGED <<liveListeners, nextConnectionID>>
       ELSE /\ LockFree
            /\ IdAvailable
            /\ LET id == generateNextID(nextConnectionID)
               IN  /\ liveListeners' = liveListeners \cup {id}
                   /\ nextConnectionID' = id
                   /\ Returns("tcp/listen", params, Uint(id), Nil)
    /\ UNCHANGED <<lock, liveConnections, liveUdpConnections, udpWriteTargets,
                   udpWriteBuffers, netCalls, datagrams, fatal,
                   udpReadBuffers>>
    /\ UNCHANGED <<mainVars, sendVars, serialVars>>

\* tcpClose without delete(liveConnections, id)
tcpClose_KeepsId(params, closedOk) ==
    /\ CanStart
    /\ started' = started + 1
    /\ IF Len(params) # 1
       THEN /\ Returns("tcp/close", params, Nil,
                       routerError(1, <<"Invalid number of parameters, expected connection ID">>))
            /\ UNCHANGED liveConnections
       ELSE IF ~ToUintOk(params[1])
       THEN /\ Returns("tcp/close", params, Nil,
                       routerError(1, <<"Invalid parameter type, expected int for connection ID">>))
            /\ UNCHANGED liveConnections
       ELSE LET id == params[1].n
                existsConn == id \in liveConnections
            IN  /\ LockFree
                /\ liveConnections' = liveConnections
                /\ IF ~existsConn
                   THEN Returns("tcp/close", params, Nil,
                                routerError(2, <<"Connection not found for ID: ", ToString(id)>>))
                   ELSE Returns("tcp/close", params,
                                IF closedOk THEN Str("") ELSE Str("error"), Nil)
    /\ UNCHANGED <<lock, liveListeners, liveUdpConnections, udpWriteTargets,
                   udpWriteBuffers, nextConnectionID, netCalls, datagrams, fatal,
                   udpReadBuffers>>
    /\ UNCHANGED <<mainVars, sendVars, serialVars>>

\* conn.Close() fails (closedOk = FALSE) or not; its error is the result
tcpClose(params, closedOk) ==
    /\ CanStart
    /\ started' = started + 1
    /\ IF Len(params) # 1
       THEN /\ Returns("tcp/close", params, Nil,
                       routerError(1, <<"Invalid number of parameters, expected connection ID">>))
            /\ UNCHANGED liveConnections
       ELSE IF ~ToUintOk(params[1])
       THEN /\ Returns("tcp/close", params, Nil,
                       routerError(1, <<"Invalid parameter type, expected int for connection ID">>))
            /\ UNCHANGED liveConnections
       ELSE LET id == params[1].n
                existsConn == id \in liveConnections
            IN  /\ LockFree
                /\ liveConnections' = IF existsConn THEN liveConnections \ {id}
                                      ELSE liveConnections
                /\ IF ~existsConn
                   THEN Returns("tcp/close", params, Nil,
                                routerError(2, <<"Connection not found for ID: ", ToString(id)>>))
                   ELSE Returns("tcp/close", params,
                                IF closedOk THEN Str("") ELSE Str("error"), Nil)
    /\ UNCHANGED <<lock, liveListeners, liveUdpConnections, udpWriteTargets,
                   udpWriteBuffers, nextConnectionID, netCalls, datagrams, fatal,
                   udpReadBuffers>>
    /\ UNCHANGED <<mainVars, sendVars, serialVars>>

tcpCloseListener(params, closedOk) ==
    /\ CanStart
    /\ started' = started + 1
    /\ IF Len(params) # 1
       THEN /\ Returns("tcp/closeListener", params, Nil,
                       routerError(1, <<"Invalid number of parameters, expected listener ID">>))
            /\ UNCHANGED liveListeners
       ELSE IF ~ToUintOk(params[1])
       THEN /\ Returns("tcp/closeListener", params, Nil,
                       routerError(1, <<"Invalid parameter type, expected int for listener ID">>))
            /\ UNCHANGED liveListeners
       ELSE LET id == params[1].n
                existsListener == id \in liveListeners
            IN  /\ LockFree
                /\ liveListeners' = IF existsListener THEN liveListeners \ {id}
                                    ELSE liveListeners
                /\ IF ~existsListener
                   THEN Returns("tcp/closeListener", params, Nil,
                                routerError(2, <<"Listener not found for ID: ", ToString(id)>>))
                   ELSE Returns("tcp/closeListener", params,
                                IF closedOk THEN Str("") ELSE Str("error"), Nil)
    /\ UNCHANGED <<lock, liveConnections, liveUdpConnections, udpWriteTargets,
                   udpWriteBuffers, nextConnectionID, netCalls, datagrams, fatal,
                   udpReadBuffers>>
    /\ UNCHANGED <<mainVars, sendVars, serialVars>>

udpConnect(params, listening) ==
    /\ CanStart
    /\ started' = started + 1
    /\ IF Len(params) # 2
       THEN /\ Returns("udp/connect", params, Nil,
                       routerError(1, <<"Invalid number of parameters, expected server address and port">>))
            /\ UNCHANGED <<liveUdpConnections, nextConnectionID>>
       ELSE IF params[1].k # "str"
       THEN /\ Returns("udp/connect", params, Nil,
                       routerError(1, <<"Invalid parameter type, expected string for server address">>))
            /\ UNCHANGED <<liveUdpConnections, nextConnectionID>>
       ELSE IF ~ToUintOk(params[2])
       THEN /\ Returns("udp/connect", params, Nil,
                       routerError(1, <<"Invalid parameter type, expected uint16 for server port">>))
            /\ UNCHANGED <<liveUdpConnections, nextConnectionID>>
       ELSE IF ~listening
       THEN /\ Returns("udp/connect", params, Nil,
                       routerError(2, <<"Failed to connect to server: ", "error">>))
            /\ UNCHANGED <<liveUdpConnections, nextConnectionID>>
       ELSE /\ LockFree
            /\ IdAvailable
            /\ LET id == generateNextID(nextConnectionID)
               IN  /\ liveUdpConnections' = liveUdpConnections \cup {id}
                   /\ nextConnectionID' = id
                   /\ Returns("udp/connect", params, Uint(id), Nil)
    /\ UNCHANGED <<lock, liveConnections, liveListeners, udpWriteTargets,
                   udpWriteBuffers, netCalls, datagrams, fatal,
                   udpReadBuffers>>
    /\ UNCHANGED <<mainVars, sendVars, serialVars>>

\* udpBeginPacket up to udpWriteTargets[id] = addr
udpBeginPacket(g, params) ==
    /\ CanStart
    /\ FreeCaller(g)
    /\ started' = started + 1
    /\ IF Len(params) # 3
       THEN /\ Returns("udp/beginPacket", params, Nil,
                       routerError(1, <<"Invalid number of parameters, expected udpConnId, dest address, dest port">>))
            /\ UNCHANGED <<lock, udpWriteTargets, netCalls>>
       ELSE IF ~ToUintOk(params[1])
       THEN /\ Returns("udp/beginPacket", params, Nil,
                       routerError(1, <<"Invalid parameter type, expected int for UDP connection ID">>))
            /\ UNCHANGED <<lock, udpWriteTargets, netCalls>>
       ELSE IF params[2].k # "str"
       THEN /\ Returns("udp/beginPacket", params, Nil,
                       routerError(1, <<"Invalid parameter type, expected string for server address">>))
            /\ UNCHANGED <<lock, udpWriteTargets, netCalls>>
       ELSE IF ~ToUintOk(params[3])
       THEN /\ Returns("udp/beginPacket", params, Nil,
                       routerError(1, <<"Invalid parameter type, expected uint16 for server port">>))
            /\ UNCHANGED <<lock, udpWriteTargets, netCalls>>
       ELSE LET id == params[1].n
                targetIP == params[2].s[1]
            IN  IF id \notin liveUdpConnections
                THEN /\ Returns("udp/beginPacket", params, Nil,
                                routerError(2, <<"UDP connection not found for ID: ", ToString(id)>>))
                     /\ UNCHANGED <<lock, udpWriteTargets, netCalls>>
                ELSE IF ~Resolvable(targetIP)
                THEN /\ Returns("udp/beginPacket", params, Nil,
                                routerError(3, <<"Failed to resolve target address: ", "error">>))
                     /\ UNCHANGED <<lock, udpWriteTargets, netCalls>>
                ELSE /\ lock' = lock \cup {g}
                     /\ udpWriteTargets' =
                            MapPut(udpWriteTargets, id,
                                   [host |-> targetIP, port |-> params[3].n])
                     /\ netCalls' = [netCalls EXCEPT ![g] =
                            [IdleCall EXCEPT !.pc = "udpBeginPacket",
                                             !.method = "udp/beginPacket",
                                             !.params = params, !.id = id]]
                     /\ UNCHANGED lastReturn
    /\ UNCHANGED <<liveConnections, liveListeners, liveUdpConnections,
                   udpWriteBuffers, nextConnectionID, datagrams, fatal,
                   udpReadBuffers>>
    /\ UNCHANGED <<mainVars, sendVars, serialVars>>

\* udpBeginPacket from udpWriteBuffers[id] = nil to its return
udpBeginPacketStore(g) ==
    /\ ~fatal
    /\ netCalls[g].pc = "udpBeginPacket"
    /\ udpWriteBuffers' = MapPut(udpWriteBuffers, netCalls[g].id, <<>>)
    /\ lock' = lock \ {g}
    /\ netCalls' = [netCalls EXCEPT ![g] = IdleCall]
    /\ Returns(netCalls[g].method, netCalls[g].params, True, Nil)
    /\ UNCHANGED <<liveConnections, liveListeners, liveUdpConnections,
                   udpWriteTargets, nextConnectionID, datagrams, started, fatal,
                   udpReadBuffers>>
    /\ UNCHANGED <<mainVars, sendVars, serialVars>>

\* udpWrite up to udpBuffer, ok := udpWriteBuffers[id]
udpWrite(g, params) ==
    /\ CanStart
    /\ FreeCaller(g)
    /\ started' = started + 1
    /\ IF Len(params) # 2
       THEN /\ Returns("udp/write", params, Nil,
                       routerError(1, <<"Invalid number of parameters, expected udpConnId, payload">>))
            /\ UNCHANGED <<lock, netCalls>>
       ELSE IF ~ToUintOk(params[1])
       THEN /\ Returns("udp/write", params, Nil,
                       routerError(1, <<"Invalid parameter type, expected int for UDP connection ID">>))
            /\ UNCHANGED <<lock, netCalls>>
       ELSE IF params[2].k \notin {"bin", "str"}
       THEN /\ Returns("udp/write", params, Nil,
                       routerError(1, <<"Invalid parameter type, expected []byte or string for data to write">>))
            /\ UNCHANGED <<lock, netCalls>>
       ELSE LET id == params[1].n
                ok == MapHas(udpWriteBuffers, id)
            IN  /\ lock' = lock \cup {g}
                /\ netCalls' = [netCalls EXCEPT ![g] =
                       [IdleCall EXCEPT !.pc = "udpWrite", !.method = "udp/write",
                                        !.params = params, !.id = id,
                                        !.data = params[2].s, !.ok = ok,
                                        !.udpBuffer = IF ok THEN udpWriteBuffers[id]
                                                      ELSE <<>>]]
                /\ UNCHANGED lastReturn
    /\ UNCHANGED <<netMaps, datagrams, fatal>>
    /\ UNCHANGED <<mainVars, sendVars, serialVars>>

\* udpWrite from udpWriteBuffers[id] = append(udpBuffer, data...) to its return
udpWriteStore(g) ==
    /\ ~fatal
    /\ netCalls[g].pc = "udpWrite"
    /\ LET c == netCalls[g]
       IN  IF c.ok
           THEN /\ udpWriteBuffers' = MapPut(udpWriteBuffers, c.id, c.udpBuffer \o c.data)
                /\ Returns(c.method, c.params, IntVal(Len(c.data)), Nil)
           ELSE /\ UNCHANGED udpWriteBuffers
                /\ Returns(c.method, c.params, Nil,
                           routerError(2, <<"UDP connection not found for ID: ", ToString(c.id)>>))
    /\ lock' = lock \ {g}
    /\ netCalls' = [netCalls EXCEPT ![g] = IdleCall]
    /\ UNCHANGED <<liveConnections, liveListeners, liveUdpConnections,
                   udpWriteTargets, nextConnectionID, datagrams, started, fatal,
                   udpReadBuffers>>
    /\ UNCHANGED <<mainVars, sendVars, serialVars>>

\* udpEndPacket up to udpBuffer, buffExists = udpWriteBuffers[id]
udpEndPacket(g, params) ==
    /\ CanStart
    /\ FreeCaller(g)
    /\ started' = started + 1
    /\ IF Len(params) # 1
       THEN /\ Returns("udp/endPacket", params, Nil,
                       routerError(1, <<"Invalid number of parameters, expected expected udpConnId">>))
            /\ UNCHANGED <<lock, netCalls>>
       ELSE IF ~ToUintOk(params[1])
       THEN /\ Returns("udp/endPacket", params, Nil,
                       routerError(1, <<"Invalid parameter type, expected int for UDP connection ID">>))
            /\ UNCHANGED <<lock, netCalls>>
       ELSE LET id == params[1].n
                buffExists == MapHas(udpWriteBuffers, id)
            IN  IF id \notin liveUdpConnections
                THEN /\ Returns("udp/endPacket", params, Nil,
                                routerError(2, <<"UDP connection not found for ID: ", ToString(id)>>))
                     /\ UNCHANGED <<lock, netCalls>>
                ELSE /\ lock' = lock \cup {g}
                     /\ netCalls' = [netCalls EXCEPT ![g] =
                            [IdleCall EXCEPT !.pc = "udpEndPacket",
                                             !.method = "udp/endPacket",
                                             !.params = params, !.id = id,
                                             !.ok = buffExists,
                                             !.udpBuffer = IF buffExists
                                                           THEN udpWriteBuffers[id]
                                                           ELSE <<>>]]
                     /\ UNCHANGED lastReturn
    /\ UNCHANGED <<netMaps, datagrams, fatal>>
    /\ UNCHANGED <<mainVars, sendVars, serialVars>>

\* udpEndPacket from udpAddr = udpWriteTargets[id] to its return; WriteTo
\* fails (written = FALSE) or hands the datagram to the network
udpEndPacketSend(g, written) ==
    /\ ~fatal
    /\ netCalls[g].pc = "udpEndPacket"
    /\ LET c == netCalls[g]
       IN  /\ udpWriteBuffers' = MapDelete(udpWriteBuffers, c.id)
           /\ udpWriteTargets' = MapDelete(udpWriteTargets, c.id)
           /\ IF ~c.ok
              THEN /\ Returns(c.method, c.params, Nil,
                              routerError(3, <<"No UDP packet begun for ID: ", ToString(c.id)>>))
                   /\ UNCHANGED datagrams
              ELSE IF written /\ MapHas(udpWriteTargets, c.id)
              THEN /\ datagrams' = Append(datagrams,
                          [id |-> c.id, addr |-> udpWriteTargets[c.id],
                           payload |-> c.udpBuffer])
                   /\ Returns(c.method, c.params, IntVal(Len(c.udpBuffer)), Nil)
              ELSE /\ Returns(c.method, c.params, Nil,
                              routerError(4, <<"Failed to write to UDP connection: ", "error">>))
                   /\ UNCHANGED datagrams
    /\ lock' = lock \ {g}
    /\ netCalls' = [netCalls EXCEPT ![g] = IdleCall]
    /\ UNCHANGED <<liveConnections, liveListeners, liveUdpConnections,
                   nextConnectionID, started, fatal,
                   udpReadBuffers>>
    /\ UNCHANGED <<mainVars, sendVars, serialVars>>

udpClose(params, closedOk) ==
    /\ CanStart
    /\ started' = started + 1
    /\ IF Len(params) # 1
       THEN /\ Returns("udp/close", params, Nil,
                       routerError(1, <<"Invalid number of parameters, expected UDP connection ID">>))
            /\ UNCHANGED <<liveUdpConnections, udpReadBuffers>>
       ELSE IF ~ToUintOk(params[1])
       THEN /\ Returns("udp/close", params, Nil,
                       routerError(1, <<"Invalid parameter type, expected int for UDP connection ID">>))
            /\ UNCHANGED <<liveUdpConnections, udpReadBuffers>>
       ELSE LET id == params[1].n
                existsConn == id \in liveUdpConnections
            IN  /\ LockFree
                /\ liveUdpConnections' = liveUdpConnections \ {id}
                /\ udpReadBuffers' = MapDelete(udpReadBuffers, id)
                /\ IF ~existsConn
                   THEN Returns("udp/close", params, Nil,
                                routerError(2, <<"UDP connection not found for ID: ", ToString(id)>>))
                   ELSE Returns("udp/close", params,
                                IF closedOk THEN Str("") ELSE Str("error"), Nil)
    /\ UNCHANGED <<lock, liveConnections, liveListeners, udpWriteTargets,
                   udpWriteBuffers, nextConnectionID, netCalls, datagrams, fatal>>
    /\ UNCHANGED <<mainVars, sendVars, serialVars>>

\* the map a caller inside its RLock section is about to write
MapWritten(g) ==
    IF netCalls[g].pc = "udpDropPacket" THEN "udpReadBuffers"
    ELSE "udpWriteBuffers"

\* Two callers inside their RLock sections are both about to access the
\* same map, one of them at least to write it: when the accesses overlap
\* the Go runtime may detect it and end the process ("fatal error:
\* concurrent map writes"), after which no handler runs.
ConcurrentMapWrites ==
    /\ ~fatal
    /\ \E g \in lock, h \in lock : g # h /\ MapWritten(g) = MapWritten(h)
    /\ fatal' = TRUE
    /\ UNCHANGED <<lock, netMaps, netCalls, lastReturn, datagrams, started>>
    /\ UNCHANGED <<mainVars, sendVars, serialVars>>

NextNet ==
    \/ \E params \in ConnectParams, dialed \in BOOLEAN : tcpConnect(params, dialed)
    \/ \E params \in ConnectParams, listening \in BOOLEAN : tcpListen(params, listening)
    \/ \E params \in IdParams, closedOk \in BOOLEAN : tcpClose(params, closedOk)
    \/ \E params \in IdParams, closedOk \in BOOLEAN : tcpCloseListener(params, closedOk)
    \/ \E params \in ConnectParams, listening \in BOOLEAN : udpConnect(params, listening)
    \/ \E g \in Callers, params \in BeginPacketParams : udpBeginPacket(g, params)
    \/ \E g \in Callers : udpBeginPacketStore(g)
    \/ \E g \in Callers, params \in WriteParams : udpWrite(g, params)
    \/ \E g \in Callers : udpWriteStore(g)
    \/ \E g \in Callers, params \in IdParams : udpEndPacket(g, params)
    \/ \E g \in Callers, written \in BOOLEAN : udpEndPacketSend(g, written)
    \/ \E params \in IdParams, closedOk \in BOOLEAN : udpClose(params, closedOk)
    \/ ConcurrentMapWrites

SpecNet == Init /\ [][NextNet]_vars

\* ------------------------------------------------------------------------
\* Receiving on a UDP channel: udp/awaitPacket, udp/read, udp/dropPacket.
\* udpAwaitPacket looks the connection up, blocks in ReadFrom with no lock
\* held, and stores the datagram under lock.Lock().
\* ------------------------------------------------------------------------
\* the datagrams the network delivers
Packets == {<<"a", "b", "c">>, <<"x", "y">>}
\* every datagram comes from this address
SourceHost == "h1"
SourcePort == 1

AwaitParams ==
    {<<Uint(i)>> : i \in Ids}
    \cup {<<Uint(1), Uint(10)>>, <<Uint(1), Str("t")>>, <<>>, <<Str("x")>>}
ReadParams ==
    {<<Uint(i), Uint(m)>> : i \in Ids, m \in {1, 2}}
    \cup {<<>>, <<Str("x"), Uint(1)>>, <<Uint(1), Str("m")>>}
DropParams == {<<Uint(i)>> : i \in Ids} \cup {<<>>, <<Str("x")>>}

\* udpAwaitPacket up to udpConn.SetReadDeadline(deadline)
udpAwaitPacket(g, params) ==
    /\ CanStart
    /\ FreeCaller(g)
    /\ started' = started + 1
    /\ IF Len(params) # 1 /\ Len(params) # 2
       THEN /\ Returns("udp/awaitPacket", params, Nil,
                       routerError(1, <<"Invalid number of parameters, expected (UDP connection ID[, optional timeout in ms])">>))
            /\ UNCHANGED netCalls
       ELSE IF ~ToUintOk(params[1])
       THEN /\ Returns("udp/awaitPacket", params, Nil,
                       routerError(1, <<"Invalid parameter type, expected uint for UDP connection ID">>))
            /\ UNCHANGED netCalls
       ELSE IF Len(params) = 2 /\ ~ToIntOk(params[2])
       THEN /\ Returns("udp/awaitPacket", params, Nil,
                       routerError(1, <<"Invalid parameter type, expected int for timeout in ms">>))
            /\ UNCHANGED netCalls
       ELSE LET id == params[1].n
                hasDeadline == Len(params) = 2 /\ params[2].n > 0
            IN  IF id \notin liveUdpConnections
                THEN /\ Returns("udp/awaitPacket", params, Nil,
                                routerError(2, <<"UDP connection not found for ID: ", ToString(id)>>))
                     /\ UNCHANGED netCalls
                ELSE /\ netCalls' = [netCalls EXCEPT ![g] =
                            [IdleCall EXCEPT !.pc = "udpAwaitPacket",
                                             !.method = "udp/awaitPacket",
                                             !.params = params, !.id = id,
                                             !.ok = hasDeadline]]
                     /\ UNCHANGED lastReturn
    /\ UNCHANGED <<lock, netMaps, datagrams, fatal>>
    /\ UNCHANGED <<mainVars, sendVars, serialVars>>

\* the outcomes of udpConn.ReadFrom(buffer): a datagram while the socket is
\* open, the deadline of the socket exceeded, or another error
ReadFromOutcomes(g) ==
    {[kind |-> "packet", bytes |-> p] :
        p \in IF netCalls[g].id \in liveUdpConnections THEN Packets ELSE {}}
    \cup {[kind |-> "timeout", bytes |-> <<>>] :
            x \in IF \E h \in Callers : /\ netCalls[h].pc = "udpAwaitPacket"
                                        /\ netCalls[h].id = netCalls[g].id
                                        /\ netCalls[h].ok
                   THEN {1} ELSE {}}
    \cup {[kind |-> "error", bytes |-> <<>>]}

\* udpAwaitPacket from udpConn.ReadFrom(buffer) to lock.Lock()
udpAwaitPacketReadFrom(g, outcome) ==
    /\ ~fatal
    /\ netCalls[g].pc = "udpAwaitPacket"
    /\ outcome \in ReadFromOutcomes(g)
    /\ LET c == netCalls[g]
       IN  IF outcome.kind = "timeout"
           THEN /\ Returns(c.method, c.params, Nil, routerError(5, <<"Timeout">>))
                /\ netCalls' = [netCalls EXCEPT ![g] = IdleCall]
           ELSE IF outcome.kind = "error"
           THEN /\ Returns(c.method, c.params, Nil,
                           routerError(3, <<"Failed to read from UDP connection: ", "error">>))
                /\ netCalls' = [netCalls EXCEPT ![g] = IdleCall]
           ELSE /\ netCalls' = [netCalls EXCEPT ![g].pc = "udpAwaitPacketStore",
                                                ![g].udpBuffer = outcome.bytes]
                /\ UNCHANGED lastReturn
    /\ UNCHANGED <<lock, netMaps, datagrams, started, fatal>>
    /\ UNCHANGED <<mainVars, sendVars, serialVars>>

\* udpAwaitPacket from lock.Lock() to its return
udpAwaitPacketStore(g) ==
    /\ ~fatal
    /\ netCalls[g].pc = "udpAwaitPacketStore"
    /\ LockFree
    /\ LET c == netCalls[g]
       IN  /\ udpReadBuffers' = MapPut(udpReadBuffers, c.id, c.udpBuffer)
           /\ Returns(c.method, c.params,
                      Arr(<<IntVal(Len(c.udpBuffer)), Str(SourceHost),
                            IntVal(SourcePort)>>), Nil)
    /\ netCalls' = [netCalls EXCEPT ![g] = IdleCall]
    /\ UNCHANGED <<lock, liveConnections, liveListeners, liveUdpConnections,
                   udpWriteTargets, udpWriteBuffers, nextConnectionID,
                   datagrams, started, fatal>>
    /\ UNCHANGED <<mainVars, sendVars, serialVars>>

\* udpRead with udpReadBuffers[id] = buffer in place of buffer[maxBytes:]
udpRead_KeepsWhole(params) ==
    /\ CanStart
    /\ started' = started + 1
    /\ IF Len(params) # 2 /\ Len(params) # 3
       THEN /\ Returns("udp/read", params, Nil,
                       routerError(1, <<"Invalid number of parameters, expected (UDP connection ID, max bytes to read)">>))
            /\ UNCHANGED udpReadBuffers
       ELSE IF ~ToUintOk(params[1])
       THEN /\ Returns("udp/read", params, Nil,
                       routerError(1, <<"Invalid parameter type, expected uint for UDP connection ID">>))
            /\ UNCHANGED udpReadBuffers
       ELSE IF ~ToUintOk(params[2])
       THEN /\ Returns("udp/read", params, Nil,
                       routerError(1, <<"Invalid parameter type, expected uint for max bytes to read">>))
            /\ UNCHANGED udpReadBuffers
       ELSE LET id == params[1].n
                maxBytes == params[2].n
                exists == MapHas(udpReadBuffers, id)
                buffer == IF exists THEN udpReadBuffers[id] ELSE <<>>
                n == IF Len(buffer) > maxBytes THEN maxBytes ELSE Len(buffer)
            IN  /\ LockFree
                /\ udpReadBuffers' =
                       IF ~exists THEN udpReadBuffers
                       ELSE IF Len(buffer) > maxBytes
                       THEN MapPut(udpReadBuffers, id, buffer)
                       ELSE MapDelete(udpReadBuffers, id)
                /\ Returns("udp/read", params, Bin(SubSeq(buffer, 1, n)), Nil)
    /\ UNCHANGED <<lock, liveConnections, liveListeners, liveUdpConnections,
                   udpWriteTargets, udpWriteBuffers, nextConnectionID,
                   netCalls, datagrams, fatal>>
    /\ UNCHANGED <<mainVars, sendVars, serialVars>>

udpRead(params) ==
    /\ CanStart
    /\ started' = started + 1
    /\ IF Len(params) # 2 /\ Len(params) # 3
       THEN /\ Returns("udp/read", params, Nil,
                       routerError(1, <<"Invalid number of parameters, expected (UDP connection ID, max bytes to read)">>))
            /\ UNCHANGED udpReadBuffers
       ELSE IF ~ToUintOk(params[1])
       THEN /\ Returns("udp/read", params, Nil,
                       routerError(1, <<"Invalid parameter type, expected uint for UDP connection ID">>))
            /\ UNCHANGED udpReadBuffers
       ELSE IF ~ToUintOk(params[2])
       THEN /\ Returns("udp/read", params, Nil,
                       routerError(1, <<"Invalid parameter type, expected uint for max bytes to read">>))
            /\ UNCHANGED udpReadBuffers
       ELSE LET id == params[1].n
                maxBytes == params[2].n
                exists == MapHas(udpReadBuffers, id)
                buffer == IF exists THEN udpReadBuffers[id] ELSE <<>>
                n == IF Len(buffer) > maxBytes THEN maxBytes ELSE Len(buffer)
            IN  /\ LockFree
                /\ udpReadBuffers' =
                       IF ~exists THEN udpReadBuffers
                       ELSE IF Len(buffer) > maxBytes
                       THEN MapPut(udpReadBuffers, id,
                                   SubSeq(buffer, maxBytes + 1, Len(buffer)))
                       ELSE MapDelete(udpReadBuffers, id)
                /\ Returns("udp/read", params, Bin(SubSeq(buffer, 1, n)), Nil)
    /\ UNCHANGED <<lock, liveConnections, liveListeners, liveUdpConnections,
                   udpWriteTargets, udpWriteBuffers, nextConnectionID,
                   netCalls, datagrams, fatal>>
    /\ UNCHANGED <<mainVars, sendVars, serialVars>>

\* udpDropPacket up to delete(udpReadBuffers, id)
udpDropPacket(g, params) ==
    /\ CanStart
    /\ FreeCaller(g)
    /\ started' = started + 1
    /\ IF Len(params) # 1 /\ Len(params) # 2
       THEN /\ Returns("udp/dropPacket", params, Nil,
                       routerError(1, <<"Invalid number of parameters, expected (UDP connection ID[, optional timeout in ms])">>))
            /\ UNCHANGED <<lock, netCalls>>
       ELSE IF ~ToUintOk(params[1])
       THEN /\ Returns("udp/dropPacket", params, Nil,
                       routerError(1, <<"Invalid parameter type, expected uint for UDP connection ID">>))
            /\ UNCHANGED <<lock, netCalls>>
       ELSE /\ lock' = lock \cup {g}
            /\ netCalls' = [netCalls EXCEPT ![g] =
                   [IdleCall EXCEPT !.pc = "udpDropPacket",
                                    !.method = "udp/dropPacket",
                                    !.params = params, !.id = params[1].n,
                                    !.ok = TRUE]]
            /\ UNCHANGED lastReturn
    /\ UNCHANGED <<netMaps, datagrams, fatal>>
    /\ UNCHANGED <<mainVars, sendVars, serialVars>>

\* udpDropPacket from delete(udpReadBuffers, id) to its return
udpDropPacketDelete(g) ==
    /\ ~fatal
    /\ netCalls[g].pc = "udpDropPacket"
    /\ LET c == netCalls[g]
       IN  /\ udpReadBuffers' = MapDelete(udpReadBuffers, c.id)
           /\ IF ~c.ok
              THEN Returns(c.method, c.params, Nil,
                           routerError(2, <<"UDP connection not found for ID: ", ToString(c.id)>>))
              ELSE Returns(c.method, c.params, True, Nil)
    /\ lock' = lock \ {g}
    /\ netCalls' = [netCalls EXCEPT ![g] = IdleCall]
    /\ UNCHANGED <<liveConnections, liveListeners, liveUdpConnections,
                   udpWriteTargets, udpWriteBuffers, nextConnectionID,
                   datagrams, started, fatal>>
    /\ UNCHANGED <<mainVars, sendVars, serialVars>>

NextUdpRead ==
    \/ \E params \in ConnectParams, listening \in BOOLEAN : udpConnect(params, listening)
    \/ \E g \in Callers, params \in AwaitParams : udpAwaitPacket(g, params)
    \/ \E g \in Callers : \E outcome \in ReadFromOutcomes(g) : udpAwaitPacketReadFrom(g, outcome)
    \/ \E g \in Callers : udpAwaitPacketStore(g)
    \/ \E params \in ReadParams : udpRead(params)
    \/ \E g \in Callers, params \in DropParams : udpDropPacket(g, params)
    \/ \E g \in Callers : udpDropPacketDelete(g)
    \/ \E params \in IdParams, closedOk \in BOOLEAN : udpClose(params, closedOk)
    \/ ConcurrentMapWrites

SpecUdpRead == Init /\ [][NextUdpRead]_vars

\* ------------------------------------------------------------------------
\* The serial port: startRouter registers $/serial/open and $/serial/close
\* and starts the goroutine that opens the port and hands it to the router
\* (src/main.go).  serialOpened and serialClosed are condition variables on
\* serialLock.
\* ------------------------------------------------------------------------
\* handler calls in one run
MaxSerialCalls == 3
\* cfg.SerialPortAddr
SerialPortAddr == "ttyHS1"

SerialParams == {<<Str(SerialPortAddr)>>, <<Str("ttyUSB0")>>, <<>>, <<Uint(1)>>}

SerialCallIds == 1 .. Len(serialCalls)
CanCallSerial == Len(serialCalls) < MaxSerialCalls
SerialCall(method, params, pc, result, err) ==
    [method |-> method, params |-> params, pc |-> pc,
     result |-> result, err |-> err]
\* the error res(nil, ...) replies with when the params are refused, or Nil
SerialParamsError(params) ==
    IF Len(params) # 1 THEN routerError(1, <<"Invalid number of parameters">>)
    ELSE IF params[1].k # "str" THEN routerError(1, <<"Invalid parameter type">>)
    ELSE IF params[1].s[1] # SerialPortAddr
    THEN routerError(1, <<"Invalid serial port address">>)
    ELSE Nil

\* the handler of $/serial/open
serialOpen(params) ==
    /\ CanCallSerial
    /\ IF SerialParamsError(params) # Nil
       THEN /\ serialCalls' = Append(serialCalls,
                   SerialCall("$/serial/open", params, "replied", Nil,
                              SerialParamsError(params)))
            /\ UNCHANGED <<serialCloseSignal, serialChans, serialRoutine>>
       ELSE /\ IF serialCloseSignal = 0
               THEN /\ serialChans' = Append(serialChans, FALSE)
                    /\ serialCloseSignal' = Len(serialChans) + 1
                    \* serialOpened.Broadcast()
                    /\ serialRoutine' =
                          IF serialRoutine.pc = "waitOpened"
                          THEN [serialRoutine EXCEPT !.pc = "top"]
                          ELSE serialRoutine
               ELSE UNCHANGED <<serialCloseSignal, serialChans, serialRoutine>>
            /\ serialCalls' = Append(serialCalls,
                   SerialCall("$/serial/open", params, "replied", True, Nil))
    /\ UNCHANGED <<mainVars, sendVars, netVars>>

\* the handler of $/serial/close up to serialClosed.Wait(), or to its reply
\* when the port is closed already
serialClose(params) ==
    /\ CanCallSerial
    /\ IF SerialParamsError(params) # Nil
       THEN /\ serialCalls' = Append(serialCalls,
                   SerialCall("$/serial/close", params, "replied", Nil,
                              SerialParamsError(params)))
            /\ UNCHANGED <<serialCloseSignal, serialChans>>
       ELSE IF serialCloseSignal # 0
       THEN /\ serialChans' = [serialChans EXCEPT ![serialCloseSignal] = TRUE]
            /\ serialCloseSignal' = 0
            /\ serialCalls' = Append(serialCalls,
                   SerialCall("$/serial/close", params, "waitClosed", Nil, Nil))
       ELSE /\ serialCalls' = Append(serialCalls,
                   SerialCall("$/serial/close", params, "replied", True, Nil))
            /\ UNCHANGED <<serialCloseSignal, serialChans>>
    /\ UNCHANGED serialRoutine
    /\ UNCHANGED <<mainVars, sendVars, netVars>>

\* the handler of $/serial/close from the return of serialClosed.Wait()
serialCloseWoken(r) ==
    /\ r \in SerialCallIds
    /\ serialCalls[r].pc = "woken"
    /\ serialCalls' = [serialCalls EXCEPT ![r].pc = "replied", ![r].result = True]
    /\ UNCHANGED <<serialCloseSignal, serialChans, serialRoutine>>
    /\ UNCHANGED <<mainVars, sendVars, netVars>>

\* the goroutine from serialOpened.L.Lock(), or from the return of
\* serialOpened.Wait(), to the next Wait or to serialOpened.L.Unlock()
serialRoutineTop ==
    /\ serialRoutine.pc = "top"
    /\ IF serialCloseSignal = 0
       THEN \* serialClosed.Broadcast(); serialOpened.Wait()
            /\ serialCalls' = [r \in SerialCallIds |->
                   IF serialCalls[r].pc = "waitClosed"
                   THEN [serialCalls[r] EXCEPT !.pc = "woken"]
                   ELSE serialCalls[r]]
            /\ serialRoutine' = [serialRoutine EXCEPT !.pc = "waitOpened"]
       ELSE /\ serialRoutine' = [pc |-> "open", close |-> serialCloseSignal]
            /\ UNCHANGED serialCalls
    /\ UNCHANGED <<serialCloseSignal, serialChans>>
    /\ UNCHANGED <<mainVars, sendVars, netVars>>

\* serial.Open: the port opens and router.Accept(wr) starts the connection,
\* or it fails and the goroutine sleeps and starts over
serialPortOpen(opened) ==
    /\ serialRoutine.pc = "open"
    /\ serialRoutine' = [serialRoutine EXCEPT !.pc = IF opened THEN "select"
                                                     ELSE "top"]
    /\ UNCHANGED <<serialCloseSignal, serialChans, serialCalls>>
    /\ UNCHANGED <<mainVars, sendVars, netVars>>

\* case <-routerExit: the connection on the serial port has failed
serialRouterExit ==
    /\ serialRoutine.pc = "select"
    /\ serialRoutine' = [serialRoutine EXCEPT !.pc = "closing"]
    /\ UNCHANGED <<serialCloseSignal, serialChans, serialCalls>>
    /\ UNCHANGED <<mainVars, sendVars, netVars>>

\* case <-close: the channel the goroutine took has been closed
serialCloseReceived ==
    /\ serialRoutine.pc = "select"
    /\ serialChans[serialRoutine.close]
    /\ serialRoutine' = [serialRoutine EXCEPT !.pc = "closing"]
    /\ UNCHANGED <<serialCloseSignal, serialChans, serialCalls>>
    /\ UNCHANGED <<mainVars, sendVars, netVars>>

\* serialPort.Close(); <-routerExit: the router drops the connection
serialPortClose ==
    /\ serialRoutine.pc = "closing"
    /\ serialRoutine' = [serialRoutine EXCEPT !.pc = "top"]
    /\ UNCHANGED <<serialCloseSignal, serialChans, serialCalls>>
    /\ UNCHANGED <<mainVars, sendVars, netVars>>

serialRoutineStep ==
    \/ serialRoutineTop
    \/ \E opened \in BOOLEAN : serialPortOpen(opened)
    \/ serialCloseReceived
    \/ serialPortClose

NextSerial ==
    \/ \E params \in SerialParams : serialOpen(params)
    \/ \E params \in SerialParams : serialClose(params)
    \/ \E r \in 1 .. MaxSerialCalls : serialCloseWoken(r)
    \/ serialRoutineStep
    \/ serialRouterExit

\* the goroutine and the woken handlers keep running, and a port that is
\* tried again and again opens in the end; requests and failures of the
\* port come when they come
SpecSerial ==
    /\ Init
    /\ [][NextSerial]_vars
    /\ WF_vars(serialRoutineStep)
    /\ SF_vars(serialPortOpen(TRUE))
    /\ \A r \in 1 .. MaxSerialCalls : WF_vars(serialCloseWoken(r))

\* ------------------------------------------------------------------------
\* Properties
\* ------------------------------------------------------------------------

InSeq(q, x) == \E j \in DOMAIN q : q[j] = x

\* the connection of peer c has terminated, or is about to because its
\* stream is closed
OriginTerminated(c) == peerClosed[c] \/ closed[c] \/ runState[c] # "running"

\* C1: every Request that has been forwarded to the owner of its method is
\* eventually answered with its Response (pc = "done": the one Response with
\* the Request's msgid has been written to the originator), unless the
\* originator's connection terminates; a request the originator itself
\* superseded by reusing its msgid (pc = "dropped") is not counted.
C1_ForwardedRequestAnswered ==
    \A k \in 1 .. MaxEvents :
        (k \in TaskIds /\ tasks[k].pc \in {"wait", "cwait"})
        ~> (k \in TaskIds
            /\ \/ tasks[k].pc \in {"done", "dropped"}
               \/ OriginTerminated(tasks[k].conn))

\* the positions of the frames of one type on the output of connection c
FramesOf(c, type) == {j \in DOMAIN out[c] : out[c][j].type = type}

\* task k has a forwarded request outstanding on its target
Outstanding(k) ==
    /\ tasks[k].pc \in {"wait", "cwait"}
    /\ MapHas(activeOutRequests[tasks[k].target], tasks[k].tid)

\* C2: the Requests the router writes to a connection carry msgids of that
\* connection's own counter, each used once; two requests outstanding on one
\* target have different target-side msgids and each is the one filed under
\* its msgid; every Response written to a connection carries the msgid of a
\* Request that connection sent and the result of that request's handler, so
\* the answer the target gave to target-side msgid t reaches the originator
\* of the request forwarded as t, under the originator's msgid.
C2_IdRemapping ==
    /\ \A c \in Conns : \A j \in FramesOf(c, messageTypeRequest) :
          /\ out[c][j].id \in 1 .. lastOutRequestsIndex[c]
          /\ \A j2 \in FramesOf(c, messageTypeRequest) :
                out[c][j2].id = out[c][j].id => j2 = j
    /\ \A k1, k2 \in TaskIds :
          (k1 # k2 /\ Outstanding(k1) /\ Outstanding(k2)
             /\ tasks[k1].target = tasks[k2].target)
          => tasks[k1].tid # tasks[k2].tid
    /\ \A k \in TaskIds :
          Outstanding(k) => activeOutRequests[tasks[k].target][tasks[k].tid] = k
    /\ \A c \in Conns : \A j \in FramesOf(c, messageTypeResponse) :
          \E k \in TaskIds :
             /\ tasks[k].conn = c
             /\ tasks[k].pc = "done"
             /\ out[c][j] = ResponseFrame(tasks[k].id, tasks[k].result.err,
                                          tasks[k].result.res)
             /\ out[c][j].id \in PeerIds
             /\ out[c][j].res.k = "uint" => out[c][j].res.n = tasks[k].tid

\* two peers used the same msgid for requests that are both outstanding on
\* one target
C2_Witness ==
    \E k1, k2 \in TaskIds :
        /\ tasks[k1].conn # tasks[k2].conn
        /\ tasks[k1].id = tasks[k2].id
        /\ tasks[k1].target = tasks[k2].target
        /\ Outstanding(k1)
        /\ Outstanding(k2)

\* task j is a $/register of m that succeeded
Registered(j, m) ==
    /\ tasks[j].method = "$/register"
    /\ tasks[j].params = <<Str(m)>>
    /\ tasks[j].pc # "start"
    /\ tasks[j].result = [err |-> Nil, res |-> True]

\* connection c registered m, has terminated since, nobody has registered m
\* after that, and no other connection owns m
OwnerGone(c, m) ==
    /\ Terminated(c)
    /\ \E j \in TaskIds : Registered(j, m) /\ tasks[j].conn = c /\ c \notin tasks[j].late
    /\ ~ \E j \in TaskIds : Registered(j, m) /\ c \in tasks[j].late
    /\ m \in DOMAIN routes => routes[m] = c

MethodNotAvailable(m) ==
    [err |-> Val("array", <<"method ", m, " not available">>, 2), res |-> Nil]

C5_OutstandingBounded ==
    sendMaxWorkers > 0 =>
        \A c \in Conns : Cardinality(DOMAIN activeOutRequests[c]) <= sendMaxWorkers

\* C6: a Request decoded with the msgid of a request whose handler has not
\* completed cancels that handler, reports one protocol violation, starts a
\* handler for the new Request and files it under the msgid; a handler that
\* completes when the entry of its msgid is not its own writes nothing and
\* leaves the entry alone, the one that owns the entry writes the Response
\* with its own result; so the Responses on a connection are exactly those of
\* the handlers that completed as owners, one each.
C6_SupersededRequest ==
    [][/\ \A p \in Conns, i \in PeerIds, call \in PeerCalls :
             (DecodeRequest(p, i, call) /\ MapHas(activeInRequests[p], i))
             => LET old == activeInRequests[p][i]
                    new == Len(tasks) + 1
                IN  /\ tasks'[old].cancelled
                    /\ errLog'[p] = Append(errLog[p], "RPC protocol violation")
                    /\ Len(tasks') = new
                    /\ tasks'[new].pc = "start"
                    /\ tasks'[new].method = call[1]
                    /\ ~tasks'[new].cancelled
                    /\ activeInRequests'[p][i] = new
                    /\ out' = out
       /\ \A k \in TaskIds :
             HandlerReply(k)
             => LET c == tasks[k].conn
                    r == HandlerResult(tasks[k])
                    owner == /\ MapHas(activeInRequests[c], tasks[k].id)
                             /\ activeInRequests[c][tasks[k].id] = k
                IN  IF owner
                    THEN \/ /\ out'[c] = Append(out[c], ResponseFrame(tasks[k].id, r.err, r.res))
                            /\ tasks'[k].pc = "done"
                         \/ /\ WriteOutcomes(c) # {TRUE}
                            /\ out' = out
                            /\ tasks'[k].pc = "failed"
                    ELSE /\ out' = out
                         /\ activeInRequests' = activeInRequests
                         /\ tasks'[k].pc = "dropped"
       /\ \A c \in Conns :
             Cardinality(FramesOf(c, messageTypeResponse))' =
                 Cardinality({k \in TaskIds : tasks[k].conn = c /\ tasks[k].pc = "done"})'
      ]_vars

\* a request was superseded while it was outstanding; both handlers have
\* completed with different results and the only Response with their msgid
\* carries the later one's
C6_Witness ==
    \E k1, k2 \in TaskIds :
        /\ k1 < k2
        /\ tasks[k1].conn = tasks[k2].conn
        /\ tasks[k1].id = tasks[k2].id
        /\ tasks[k1].pc = "dropped"
        /\ tasks[k2].pc = "done"
        /\ tasks[k1].result # tasks[k2].result
        /\ InSeq(errLog[tasks[k1].conn], "RPC protocol violation")
        /\ \A j \in FramesOf(tasks[k1].conn, messageTypeResponse) :
              out[tasks[k1].conn][j].id = tasks[k1].id
              => out[tasks[k1].conn][j].res = tasks[k2].result.res

\* C3: $/register(m) for a name nobody owns inserts (m, caller) and returns
\* true; while m is owned every $/register(m), the owner's included, returns
\* the error [5, "route already exists: m"] and leaves the table unchanged;
\* the entry of m goes away only when its owner's connection is cleaned up or
\* its owner calls $/reset.
C3_RegisterOnce ==
    [][/\ \A k \in TaskIds, m \in MethodNames :
             (/\ tasks[k].method = "$/register"
              /\ tasks[k].params = <<Str(m)>>
              /\ HandlerDispatch(k))
             => IF m \notin DOMAIN routes
                THEN /\ routes' = MapPut(routes, m, tasks[k].conn)
                     /\ tasks'[k].pc = "reply"
                     /\ tasks'[k].result = [err |-> Nil, res |-> True]
                ELSE /\ routes' = routes
                     /\ tasks'[k].pc = "reply"
                     /\ tasks'[k].result =
                            [err |-> Val("array", <<"route already exists: ", m>>, 5),
                             res |-> Nil]
       /\ \A m \in DOMAIN routes :
             (m \notin DOMAIN routes' \/ routes'[m] # routes[m])
             => \/ ConnCleanup(routes[m])
                \/ \E k \in TaskIds : /\ tasks[k].conn = routes[m]
                                      /\ tasks[k].method = "$/reset"
                                      /\ HandlerDispatch(k)
      ]_vars

\* the owner of "ping" and another peer have both been refused "ping"
C3_Witness ==
    /\ "ping" \in DOMAIN routes
    /\ \E k1, k2 \in TaskIds :
          /\ tasks[k1].method = "$/register" /\ tasks[k2].method = "$/register"
          /\ tasks[k1].conn = routes["ping"]
          /\ tasks[k2].conn # routes["ping"]
          /\ tasks[k1].result.err.n = 5
          /\ tasks[k2].result.err.n = 5

\* C8: a $/cancelRequest [i] decoded while activeInRequests holds i fires the
\* cancellation of that request's handler and leaves the entry in place; the
\* key i leaves activeInRequests only when the handler it names completes;
\* and the (result, error) a cancelled handler returns is written as the
\* Response with msgid i (unless the write itself fails).
C8_CancelKeepsEntryAndReply ==
    [][/\ \A p \in Conns, i \in PeerIds :
             (DecodeCancel(p, i) /\ MapHas(activeInRequests[p], i))
             => /\ tasks'[activeInRequests[p][i]].cancelled
                /\ activeInRequests' = activeInRequests
                /\ out' = out
       /\ \A c \in Conns : \A i \in DOMAIN activeInRequests[c] :
             i \notin DOMAIN activeInRequests'[c]
             => HandlerReply(activeInRequests[c][i])
       /\ \A k \in TaskIds :
             (/\ tasks[k].cancelled
              /\ MapHas(activeInRequests[tasks[k].conn], tasks[k].id)
              /\ activeInRequests[tasks[k].conn][tasks[k].id] = k
              /\ HandlerReply(k))
             => LET c == tasks[k].conn
                    r == HandlerResult(tasks[k])
                IN  \/ out'[c] = Append(out[c], ResponseFrame(tasks[k].id, r.err, r.res))
                    \/ /\ WriteOutcomes(c) # {TRUE}
                       /\ out' = out
                       /\ closed'[c]
      ]_vars

\* a forwarded request was cancelled by its originator ($/cancelRequest went
\* on to the target) and its Response has been written all the same
C8_Witness ==
    \E k \in TaskIds :
        /\ tasks[k].pc = "done"
        /\ tasks[k].tid # 0
        /\ InSeq(out[tasks[k].target],
                 NotificationFrame("$/cancelRequest", <<Uint(tasks[k].tid)>>))
        /\ InSeq(out[tasks[k].conn],
                 ResponseFrame(tasks[k].id, tasks[k].result.err, tasks[k].result.res))

\* C9: a $/cancelRequest whose id is not a key of activeInRequests changes
\* nothing: no handler is cancelled, activeInRequests and activeOutRequests
\* are unchanged, no frame is written and no error is reported.
C9_UnknownCancelIsNoOp ==
    [][\A p \in Conns, i \in PeerIds :
          (DecodeCancel(p, i) /\ ~MapHas(activeInRequests[p], i))
          => UNCHANGED <<tasks, activeInRequests, activeOutRequests, out, errLog,
                         routes, closed, runState>>
      ]_vars

\* a $/cancelRequest has been decoded, requests are in flight and none of
\* them is cancelled
C9_Witness ==
    /\ sent.cancels > 0
    /\ \E c \in Conns : activeInRequests[c] # EmptyMap
    /\ \A k \in TaskIds : ~tasks[k].cancelled

\* C10: a Response whose msgid is a key of activeOutRequests removes the
\* entry and hands (error, result) to exactly the request waiting under that
\* msgid; a Response with any other msgid is reported to the error handler,
\* completes nothing, leaves activeOutRequests unchanged, and Run goes on.
C10_ResponseCompletesItsRequest ==
    [][\A p \in Conns, i \in 1 .. MaxEvents :
         \A pl \in PeerPayloads(i) \cup {SpuriousPayload} :
          (\/ DecodeAnswer(p, i, pl)
           \/ DecodeSpuriousResponse(p, i) /\ pl = SpuriousPayload)
          => IF i \in DOMAIN activeOutRequests[p]
             THEN LET k == activeOutRequests[p][i]
                  IN  /\ activeOutRequests'[p] = MapDelete(activeOutRequests[p], i)
                      /\ tasks'[k].chan = Append(tasks[k].chan, pl)
                      /\ \A j \in TaskIds \ {k} : tasks'[j] = tasks[j]
                      /\ errLog' = errLog
                      /\ runState'[p] = "running"
             ELSE /\ errLog'[p] = Append(errLog[p], "invalid ID in request response")
                  /\ tasks' = tasks
                  /\ activeOutRequests' = activeOutRequests
                  /\ runState'[p] = "running"
      ]_vars

\* a forwarded request was completed by its answer, and a second answer on
\* the same connection was reported while Run kept going
C10_Witness ==
    \E p \in Conns, k \in TaskIds :
        /\ InSeq(errLog[p], "invalid ID in request response")
        /\ runState[p] = "running"
        /\ tasks[k].target = p
        /\ tasks[k].pc = "done"
        /\ tasks[k].result = [err |-> Nil, res |-> Uint(tasks[k].tid)]
        /\ activeOutRequests[p] = EmptyMap

\* the $/cancelRequest of task k's forwarded request is on its target's stream
CancelSent(k) ==
    /\ tasks[k].tid # 0
    /\ InSeq(out[tasks[k].target],
             NotificationFrame("$/cancelRequest", <<Uint(tasks[k].tid)>>))

\* the handler of task k has returned
Returned(k) == tasks[k].pc \in {"reply", "done", "failed", "dropped"}

\* a (result, error) made by the router, not by a peer
IsRouterError(r) == r.res = Nil /\ r.err.k = "array"

\* C11 as stated: once the caller of an in-progress SendRequest has cancelled
\* (its $/cancelRequest is written), the call has returned, without waiting
\* for the matching Response, and what it returned is a cancellation error.
C11_CancelledCallReturnsError ==
    \A k \in TaskIds :
        CancelSent(k) => Returned(k) /\ IsRouterError(tasks[k].result)

\* C11 amended: a SendRequest whose caller has cancelled keeps waiting, with
\* its activeOutRequests entry retained, until the matching Response has been
\* processed, and then returns that Response's (result, error); it never
\* returns a cancellation error.
C11_CancelledCallWaits ==
    \A k \in TaskIds :
        CancelSent(k) =>
            /\ tasks[k].pc # "wait"
            /\ ~Returned(k) =>
                  \/ tasks[k].chan # <<>>
                  \/ /\ MapHas(activeOutRequests[tasks[k].target], tasks[k].tid)
                     /\ activeOutRequests[tasks[k].target][tasks[k].tid] = k
            /\ Returned(k) =>
                  /\ tasks[k].result \in PeerPayloads(tasks[k].tid)
                  /\ tasks[k].tid \in peerAnswered[tasks[k].target]

\* a cancelled call has returned with the result the target answered
C11_Witness ==
    \E k \in TaskIds :
        /\ CancelSent(k)
        /\ Returned(k)
        /\ tasks[k].result.res = Uint(tasks[k].tid)

\* the positions of the $/cancelRequest notifications on the output of c
CancelFrames(c) ==
    {j \in FramesOf(c, messageTypeNotification) : out[c][j].method = "$/cancelRequest"}

C13_CancelledEntryRetained ==
    [][/\ \A k \in TaskIds :
             HandlerCtxDone(k) => activeOutRequests' = activeOutRequests
       /\ \A k \in TaskIds :
             (/\ tasks[k].pc = "cwait"
              /\ MapHas(activeOutRequests[tasks[k].target], tasks[k].tid))
             => \/ /\ MapHas(activeOutRequests'[tasks[k].target], tasks[k].tid)
                   /\ activeOutRequests'[tasks[k].target][tasks[k].tid] = k
                \/ /\ PeerAnswers(tasks[k].target)
                   /\ tasks'[k].chan # <<>>
       /\ \A p \in Conns, i \in 1 .. MaxEvents : \A pl \in PeerPayloads(i) :
             (/\ DecodeAnswer(p, i, pl)
              /\ \E k \in TaskIds : /\ tasks[k].pc = "cwait"
                                    /\ tasks[k].target = p
                                    /\ tasks[k].tid = i)
             => /\ errLog' = errLog
                /\ i \notin DOMAIN activeOutRequests'[p]
                /\ \E k \in TaskIds : /\ tasks[k].target = p
                                      /\ tasks[k].tid = i
                                      /\ tasks'[k].chan = <<pl>>
      ]_vars

\* the Response to a cancelled call arrived after the cancellation and was
\* taken as its answer; no unknown msgid was reported on that connection
C13_Witness ==
    \E k \in TaskIds :
        /\ CancelSent(k)
        /\ tasks[k].pc = "done"
        /\ tasks[k].result \in PeerPayloads(tasks[k].tid)
        /\ ~InSeq(errLog[tasks[k].target], "invalid ID in request response")
        /\ activeOutRequests[tasks[k].target] = EmptyMap

\* C14: the handler of a Request picks its rule in a fixed order.  $/register
\* and $/reset are handled by the router itself, whatever the tables hold;
\* otherwise a name in routesInternal is answered by its internal handler,
\* even when a peer owns a route of the same name (internal shadows external);
\* otherwise a name in routes is forwarded as a Request to the connection
\* that owns it; otherwise the handler returns [2, "method <name> not
\* available"].  Only the forwarding rule writes a frame or files an
\* outstanding request.
C14_DispatchOrder ==
    [][\A k \in TaskIds :
          HandlerDispatch(k) =>
             LET t == tasks[k]
                 m == t.method
                 quiet == /\ out' = out
                          /\ activeOutRequests' = activeOutRequests
                          /\ lastOutRequestsIndex' = lastOutRequestsIndex
                          /\ tasks'[k].pc = "reply"
             IN  IF m \in {"$/register", "$/reset"}
                 THEN /\ quiet
                      /\ \/ tasks'[k].result = [err |-> Nil, res |-> True]
                         \/ IsRouterError(tasks'[k].result)
                 ELSE IF m \in routesInternal
                 THEN /\ quiet
                      /\ routes' = routes
                      /\ tasks'[k].result = InternalHandler(m, t.params)
                 ELSE IF MapHas(routes, m)
                 THEN LET b == routes[m]
                      IN  /\ routes' = routes
                          /\ \/ /\ out' = [out EXCEPT ![b] = Append(@,
                                       RequestFrame(lastOutRequestsIndex'[b], m, t.params))]
                                /\ tasks'[k].pc = "wait"
                                /\ tasks'[k].target = b
                                /\ activeOutRequests'[b][lastOutRequestsIndex'[b]] = k
                             \/ /\ WriteOutcomes(b) # {TRUE}
                                /\ out' = out
                                /\ tasks'[k].pc = "reply"
                                /\ tasks'[k].result.err.n = ErrCodeFailedToSendRequests
                 ELSE /\ quiet
                      /\ routes' = routes
                      /\ tasks'[k].result = MethodNotAvailable(m)
      ]_vars

\* a peer registered the name of an internal method as its own route, and a
\* Request for that name from another peer was answered by the internal
\* handler: nothing was forwarded to the peer that owns the route
C14_Witness ==
    \E k, j \in TaskIds, m \in InternalNames :
        /\ Registered(j, m)
        /\ tasks[j].pc = "done"
        /\ MapHas(routes, m)
        /\ routes[m] = tasks[j].conn
        /\ tasks[k].method = m
        /\ tasks[k].conn # tasks[j].conn
        /\ tasks[k].pc = "done"
        /\ tasks[k].result = InternalHandler(m, tasks[k].params)
        /\ out[tasks[j].conn] = <<ResponseFrame(tasks[j].id, Nil, True)>>

\* C15: the handler of $/reset with no params removes from routes exactly
\* the entries that point at the calling connection: every other peer's route
\* stays as it was, routesInternal is unchanged, and the handler returns true.
\* A name that is not in routes (removed by a reset, for instance) is
\* registered with success by whichever peer asks for it next.
C15_ResetRemovesOwnRoutes ==
    [][\A k \in TaskIds :
          HandlerDispatch(k) =>
             LET t == tasks[k]
                 c == t.conn
             IN  /\ (t.method = "$/reset" /\ t.params = <<>>)
                     => /\ DOMAIN routes' = {m \in DOMAIN routes : routes[m] # c}
                        /\ \A m \in DOMAIN routes' : routes'[m] = routes[m]
                        /\ routesInternal' = routesInternal
                        /\ tasks'[k].pc = "reply"
                        /\ tasks'[k].result = [err |-> Nil, res |-> True]
                 /\ \A m \in MethodNames :
                       (/\ t.method = "$/register"
                        /\ t.params = <<Str(m)>>
                        /\ ~MapHas(routes, m))
                       => /\ routes' = MapPut(routes, m, c)
                          /\ tasks'[k].result = [err |-> Nil, res |-> True]
      ]_vars

\* a peer registered a name and reset; another peer then registered the same
\* name with success and owns it, while the first peer is still connected
C15_Witness ==
    \E j1, j2, r \in TaskIds, m \in MethodNames :
        /\ Registered(j1, m)
        /\ Registered(j2, m)
        /\ tasks[j1].conn # tasks[j2].conn
        /\ tasks[r].conn = tasks[j1].conn
        /\ tasks[r].method = "$/reset"
        /\ tasks[r].pc = "done"
        /\ tasks[r].result = [err |-> Nil, res |-> True]
        /\ runState[tasks[j1].conn] = "running"
        /\ MapHas(routes, m)
        /\ routes[m] = tasks[j2].conn

\* C16: once connectionLoop has run its cleanup for a connection (Run has
\* returned and removeMethodsFromConnection has been called), no entry of
\* routes points at that connection, in that state and in every later one;
\* this includes the case where the handler of a $/register Request of that
\* peer had not run yet when the peer disconnected.
C16_NoRouteToTerminated ==
    \A c \in Conns :
        Terminated(c) => \A m \in DOMAIN routes : routes[m] # c

\* C17: when the connection a request was forwarded to terminates while the
\* request is outstanding (no Response for it has been processed), the
\* forwarded call completes: its handler returns a router-level error, to be
\* written to the originator as the Response with the original msgid.
C17_TargetGoneCompletes ==
    \A k \in 1 .. MaxEvents :
        (/\ k \in TaskIds
         /\ tasks[k].pc \in {"wait", "cwait"}
         /\ tasks[k].chan = <<>>
         /\ Terminated(tasks[k].target))
        ~> (/\ k \in TaskIds
            /\ Returned(k)
            /\ IsRouterError(tasks[k].result))

\* C18: no method name is at once a key of routes and a name of
\* routesInternal: $/register of m inserts a route only when neither a peer
\* nor an internal handler owns m.
C18_RoutesDisjoint ==
    DOMAIN routes \cap routesInternal = {}

\* C19: a call of SendRequest that is waiting for its Response is the one
\* filed in activeOutRequests under its msgid: SendRequest never installs a
\* new request under a msgid whose request is still outstanding, also after
\* the 32-bit counter has wrapped.
C19_LiveMsgidNotReused ==
    \A k \in TaskIds :
        (tasks[k].pc \in {"wait", "cwait"} /\ tasks[k].chan = <<>>)
        => /\ MapHas(activeOutRequests[tasks[k].target], tasks[k].tid)
           /\ activeOutRequests[tasks[k].target][tasks[k].tid] = k

\* the decoded value v is not a well-formed envelope: not an array, fewer
\* than 3 elements, a message type that is not an integer or not one of the
\* three, the wrong length for its type, or a field of the wrong type
Malformed(v) ==
    \/ v.k # "array"
    \/ /\ v.k = "array"
       /\ LET d == v.s
              n == Len(d)
          IN  \/ n < 3
              \/ n >= 3 /\ d[1].k \notin {"int", "uint"}
              \/ n >= 3 /\ d[1].k \in {"int", "uint"}
                 /\ d[1].n \notin {messageTypeRequest, messageTypeResponse,
                                   messageTypeNotification}
              \/ n >= 3 /\ d[1] = IntVal(messageTypeRequest)
                 /\ (n # 4 \/ d[2].k # "uint" \/ d[3].k # "str" \/ d[4].k # "array")
              \/ n >= 3 /\ d[1] = IntVal(messageTypeResponse)
                 /\ (n # 4 \/ d[2].k # "uint")
              \/ n >= 3 /\ d[1] = IntVal(messageTypeNotification)
                 /\ (n # 3 \/ d[2].k # "str" \/ d[3].k # "array")

C21_WriteErrorCloses ==
    [][\A k \in TaskIds :
          /\ (/\ HandlerDispatch(k)
              /\ tasks'[k].target # 0
              /\ tasks'[k].pc = "reply")
             => closed'[tasks'[k].target]
          /\ (HandlerReply(k) /\ tasks'[k].pc = "failed")
             => closed'[tasks[k].conn]
          /\ (/\ HandlerCtxDone(k)
              /\ MapHas(activeOutRequests[tasks[k].target], tasks[k].tid)
              /\ out' = out)
             => closed'[tasks[k].target]
      ]_vars

FailedToSend ==
    [res |-> Nil,
     err |-> Val("array", <<"failed to send request: ", "sending request">>,
                 ErrCodeFailedToSendRequests)]

\* C22: when the write of the forwarded Request on the target fails, the
\* handler returns the error [3, "failed to send request: ..."], the target's
\* activeOutRequests has no entry under the msgid that was taken, and the
\* Response written to the originator carries the originator's msgid and
\* that error.
C22_FailedForward ==
    [][\A k \in TaskIds :
          /\ (/\ HandlerDispatch(k)
              /\ tasks[k].method \in MethodNames
              /\ MapHas(routes, tasks[k].method)
              /\ out' = out)
             => LET b == routes[tasks[k].method]
                IN  /\ tasks'[k].pc = "reply"
                    /\ tasks'[k].result = FailedToSend
                    /\ ~MapHas(activeOutRequests'[b], lastOutRequestsIndex'[b])
                    /\ \A i \in DOMAIN activeOutRequests'[b] :
                          activeOutRequests'[b][i] # k
          /\ (/\ HandlerReply(k)
              /\ tasks[k].pc = "reply"
              /\ tasks[k].result = FailedToSend
              /\ MapHas(activeInRequests[tasks[k].conn], tasks[k].id)
              /\ activeInRequests[tasks[k].conn][tasks[k].id] = k)
             => LET a == tasks[k].conn
                IN  \/ out'[a] = Append(out[a],
                                    ResponseFrame(tasks[k].id, FailedToSend.err, Nil))
                    \/ WriteOutcomes(a) # {TRUE} /\ out' = out
      ]_vars

\* a Request could not be written to the owner of its method, whose peer
\* had gone; the originator has the Response with code 3 and the owner's
\* table is empty
C22_Witness ==
    \E k \in TaskIds :
        /\ tasks[k].pc = "done"
        /\ tasks[k].target # 0
        /\ tasks[k].target # tasks[k].conn
        /\ tasks[k].result = FailedToSend
        /\ InSeq(out[tasks[k].conn], ResponseFrame(tasks[k].id, FailedToSend.err, Nil))
        /\ activeOutRequests[tasks[k].target] = EmptyMap
        /\ lastOutRequestsIndex[tasks[k].target] = 1

\* task k is the goroutine of a Notification
IsNotification(k) == tasks[k].pc \in {"nstart", "ndone"}

\* C23: the handler of an inbound Notification writes at most one frame: when
\* no internal handler has the method and a connection owns it in routes, the
\* Notification with the same method and params, on the owning connection
\* (which may be the sender's); otherwise nothing.  It changes no table, and
\* a Response frame is only ever written for a Request.
C23_NotificationForwarded ==
    [][/\ \A k \in TaskIds :
             NotificationDispatch(k) =>
                LET t == tasks[k]
                    m == t.method
                IN  /\ routes' = routes
                    /\ activeInRequests' = activeInRequests
                    /\ activeOutRequests' = activeOutRequests
                    /\ IF m \notin routesInternal /\ MapHas(routes, m)
                       THEN \/ out' = [out EXCEPT ![routes[m]] =
                                          Append(@, NotificationFrame(m, t.params))]
                            \/ WriteOutcomes(routes[m]) # {TRUE} /\ out' = out
                       ELSE out' = out
       /\ \A k \in TaskIds :
             IsNotification(k) => IsNotification(k)' /\ ~HandlerReply(k)
       /\ \A c \in Conns :
             FramesOf(c, messageTypeResponse)' # FramesOf(c, messageTypeResponse)
             => \E k \in TaskIds : ~IsNotification(k) /\ HandlerReply(k)
      ]_vars

\* a peer that owns "ping" sent the Notification ping [5, "a"] and received
\* it back, and a Notification of an internal method was dropped
C23_Witness ==
    \E k, j \in TaskIds :
        /\ tasks[k].pc = "ndone"
        /\ tasks[k].method \in MethodNames
        /\ tasks[k].target = tasks[k].conn
        /\ InSeq(out[tasks[k].conn],
                 NotificationFrame(tasks[k].method, <<Uint(5), Str("a")>>))
        /\ tasks[j].pc = "ndone"
        /\ tasks[j].method \in InternalNames
        /\ tasks[j].target = 0

\* the params are not what the intrinsic method expects
BadParams(method, params) ==
    \/ method = "$/register" /\ Len(params) # 1
    \/ method = "$/register" /\ Len(params) = 1 /\ params[1].k # "str"
    \/ method = "$/reset" /\ Len(params) # 0

InvalidParams(r) ==
    r.res = Nil /\ r.err.k = "array" /\ r.err.n = ErrCodeInvalidParams

\* C24: the handler of a $/register whose params are not exactly one string,
\* or of a $/reset whose params are not empty, returns an error with code 1
\* and leaves routes and routesInternal as they were; that error is what the
\* Response carries.
C24_InvalidParams ==
    [][\A k \in TaskIds :
          /\ (HandlerDispatch(k) /\ BadParams(tasks[k].method, tasks[k].params))
             => /\ tasks'[k].pc = "reply"
                /\ InvalidParams(tasks'[k].result)
                /\ routes' = routes
                /\ routesInternal' = routesInternal
                /\ out' = out
          /\ (/\ HandlerReply(k)
              /\ BadParams(tasks[k].method, tasks[k].params)
              /\ out' # out)
             => /\ InvalidParams(tasks[k].result)
                /\ out'[tasks[k].conn] =
                      Append(out[tasks[k].conn],
                             ResponseFrame(tasks[k].id, tasks[k].result.err, Nil))
      ]_vars

\* a peer that owns "ping" called $/reset with one param: it was answered
\* with code 1 and still owns "ping"
C24_Witness ==
    \E j, r \in TaskIds :
        /\ Registered(j, "ping")
        /\ tasks[j].pc = "done"
        /\ tasks[r].conn = tasks[j].conn
        /\ tasks[r].method = "$/reset"
        /\ tasks[r].params # <<>>
        /\ tasks[r].pc = "done"
        /\ InvalidParams(tasks[r].result)
        /\ MapHas(routes, "ping")
        /\ routes["ping"] = tasks[j].conn
        /\ \A k \in TaskIds : k \in {j, r}

\* connection c has not terminated and no $/reset of its peer has been
\* handled
StillOwner(c) ==
    /\ ~Terminated(c)
    /\ \A r \in TaskIds :
          (tasks[r].conn = c /\ tasks[r].method = "$/reset") => tasks[r].pc = "start"

\* C25: once the Response to a successful $/register of m has been written
\* to the peer that asked, routes holds m for that peer's connection, and it
\* does so in every later state until the connection terminates or the peer
\* resets: a lookup of m made after the Response finds the route.
C25_RegisterVisibleBeforeResponse ==
    \A j \in TaskIds, m \in MethodNames :
        (/\ Registered(j, m)
         /\ tasks[j].pc = "done"
         /\ StillOwner(tasks[j].conn))
        => /\ MapHas(routes, m)
           /\ routes[m] = tasks[j].conn

\* the Response to $/register ping has been written, and a Request for ping
\* from another peer, handled while the owner was connected, was forwarded
\* to the owner
C25_Witness ==
    \E j, k \in TaskIds :
        /\ Registered(j, "ping")
        /\ tasks[j].pc = "done"
        /\ StillOwner(tasks[j].conn)
        /\ tasks[k].method = "ping"
        /\ tasks[k].conn # tasks[j].conn
        /\ tasks[k].pc = "wait"
        /\ tasks[k].target = tasks[j].conn
        /\ out[tasks[j].conn] = <<ResponseFrame(tasks[j].id, Nil, True),
                                  RequestFrame(tasks[k].tid, "ping", <<>>)>>

\* C26: the request handler is invoked for the Requests of one connection in
\* the order in which they were decoded: when the handler of a Request
\* starts, the handler of every Request decoded earlier from the same
\* connection has started.
C26_DispatchInDecodeOrder ==
    [][\A k \in TaskIds :
          HandlerDispatch(k) =>
             \A j \in 1 .. k - 1 :
                tasks[j].conn = tasks[k].conn => tasks[j].pc # "start"
      ]_vars

\* C27: the Request the router writes to the owner of a method has the
\* method and the params of the originator's Request; the (error, result) of
\* the owner's Response is handed as it is to the call that waits for it, and
\* the Response the router writes to the originator carries that pair, be it
\* one nil, both nil or none nil.
C27_ForwardedVerbatim ==
    [][/\ \A k \in TaskIds :
             (HandlerDispatch(k) /\ tasks'[k].pc = "wait")
             => LET b == tasks'[k].target
                IN  out'[b] = Append(out[b],
                                 RequestFrame(tasks'[k].tid, tasks[k].method,
                                              tasks[k].params))
       /\ \A p \in Conns, i \in 1 .. MaxEvents :
             \A pl \in PeerPayloads(i) \cup OddPayloads(i) :
                (DecodeAnswer(p, i, pl) /\ MapHas(activeOutRequests[p], i))
                => tasks'[activeOutRequests[p][i]].chan = <<pl>>
       /\ \A k \in TaskIds :
             (/\ HandlerReply(k)
              /\ tasks[k].pc \in {"wait", "cwait"}
              /\ out' # out)
             => out'[tasks[k].conn] =
                   Append(out[tasks[k].conn],
                          ResponseFrame(tasks[k].id, tasks[k].chan[1].err,
                                        tasks[k].chan[1].res))
      ]_vars

\* a Request with params was forwarded with them, its owner answered with an
\* error and a result at once, and the originator has both in its Response
C27_Witness ==
    \E k \in TaskIds :
        /\ tasks[k].pc = "done"
        /\ tasks[k].params = <<Uint(5), Str("a")>>
        /\ tasks[k].target \notin {0, tasks[k].conn}
        /\ InSeq(out[tasks[k].target],
                 RequestFrame(tasks[k].tid, tasks[k].method, <<Uint(5), Str("a")>>))
        /\ tasks[k].result = [err |-> Str("failed"), res |-> Uint(tasks[k].tid)]
        /\ InSeq(out[tasks[k].conn],
                 ResponseFrame(tasks[k].id, Str("failed"), Uint(tasks[k].tid)))

\* C28: with sendMaxWorkers = N > 0, while N forwarded requests are
\* outstanding on a connection, the handler of a further Request for a method
\* of that connection writes no Request on it.
C28_ForwardBlocksAtLimit ==
    [][\A k \in TaskIds :
          (/\ HandlerDispatch(k)
           /\ tasks[k].method \in MethodNames
           /\ MapHas(routes, tasks[k].method)
           /\ sendMaxWorkers > 0
           /\ Cardinality(DOMAIN activeOutRequests[routes[tasks[k].method]])
                 >= sendMaxWorkers)
          => out'[routes[tasks[k].method]] = out[routes[tasks[k].method]]
      ]_vars

\* C29: tcp/close(id) succeeds exactly when id is a live TCP connection and
\* then removes it, tcp/closeListener(id) exactly when id is a live listener
\* and then removes it; otherwise (the id was closed before, or it is an id
\* of the other kind) the call returns error code 2 and changes no state of
\* the package.  No id is a connection and a listener at once.
C29_CloseOnlyLive ==
    /\ [](liveConnections \cap liveListeners = {})
    /\ [][\A params \in IdParams \ BadIdParams, closedOk \in BOOLEAN :
            /\ tcpClose(params, closedOk) =>
                 IF params[1].n \in liveConnections
                 THEN /\ lastReturn'.err = Nil
                      /\ lastReturn'.result.k = "str"
                      /\ liveConnections' = liveConnections \ {params[1].n}
                      /\ UNCHANGED <<liveListeners, liveUdpConnections>>
                 ELSE /\ lastReturn'.result = Nil
                      /\ lastReturn'.err.k = "array"
                      /\ lastReturn'.err.n = 2
                      /\ UNCHANGED netMaps
            /\ tcpCloseListener(params, closedOk) =>
                 IF params[1].n \in liveListeners
                 THEN /\ lastReturn'.err = Nil
                      /\ lastReturn'.result.k = "str"
                      /\ liveListeners' = liveListeners \ {params[1].n}
                      /\ UNCHANGED <<liveConnections, liveUdpConnections>>
                 ELSE /\ lastReturn'.result = Nil
                      /\ lastReturn'.err.k = "array"
                      /\ lastReturn'.err.n = 2
                      /\ UNCHANGED netMaps
        ]_vars

\* a tcp/close of the id of a live listener has returned error code 2 while
\* other TCP connections are live
C29_Witness ==
    /\ lastReturn.method = "tcp/close"
    /\ lastReturn.err.k = "array"
    /\ lastReturn.err.n = 2
    /\ Len(lastReturn.params) = 1
    /\ lastReturn.params[1].k = "uint"
    /\ lastReturn.params[1].n \in liveListeners
    /\ liveConnections # {}

\* C30: while a packet is pending for id, a udp/write(id, data) that found
\* it pending appends data to the pending packet and returns len(data); a udp/endPacket
\* that returns without error has sent the pending packet as one datagram to
\* the target of the packet, returns its length and leaves no pending
\* packet; a udp/endPacket with no pending packet returns error code 3.
C30_PacketAssembled ==
    [][\A g \in Callers :
          /\ (/\ udpWriteStore(g)
              /\ netCalls[g].ok
              /\ MapHas(udpWriteBuffers, netCalls[g].id)) =>
                /\ MapHas(udpWriteBuffers', netCalls[g].id)
                /\ udpWriteBuffers'[netCalls[g].id] =
                       udpWriteBuffers[netCalls[g].id] \o netCalls[g].data
                /\ lastReturn'.err = Nil
                /\ lastReturn'.result = IntVal(Len(netCalls[g].data))
          /\ \A written \in BOOLEAN :
                udpEndPacketSend(g, written) =>
                  /\ ~MapHas(udpWriteBuffers', netCalls[g].id)
                  /\ IF MapHas(udpWriteBuffers, netCalls[g].id)
                     THEN lastReturn'.err = Nil =>
                            /\ MapHas(udpWriteTargets, netCalls[g].id)
                            /\ datagrams' = Append(datagrams,
                                  [id |-> netCalls[g].id,
                                   addr |-> udpWriteTargets[netCalls[g].id],
                                   payload |-> udpWriteBuffers[netCalls[g].id]])
                            /\ lastReturn'.result =
                                  IntVal(Len(udpWriteBuffers[netCalls[g].id]))
                     ELSE /\ lastReturn'.err.k = "array"
                          /\ lastReturn'.err.n = 3
      ]_vars

\* the handler of task k has completed: its Response is written, the write
\* failed, or it found itself superseded
Completed(k) == tasks[k].pc \in {"done", "failed", "dropped"}

\* task k is the most recently decoded Request with its msgid on its connection
Latest(k) ==
    \A j \in TaskIds :
        (tasks[j].conn = tasks[k].conn /\ tasks[j].id = tasks[k].id) => j <= k

\* C32: activeInRequests[c][i] is always the most recently decoded Request
\* with msgid i on c, and its handler has not completed; the latest Request
\* of a msgid keeps its entry until its own handler completes; a handler
\* that completes superseded changes neither activeInRequests nor any other
\* handler; and when every handler has completed activeInRequests is empty.
C32_EntryIsLatestActive ==
    /\ [](/\ \A c \in Conns : \A i \in DOMAIN activeInRequests[c] :
               LET k == activeInRequests[c][i]
               IN  /\ k \in TaskIds
                   /\ tasks[k].conn = c
                   /\ tasks[k].id = i
                   /\ Latest(k)
                   /\ ~Completed(k)
          /\ \A k \in TaskIds :
               (Latest(k) /\ ~Completed(k))
               => /\ MapHas(activeInRequests[tasks[k].conn], tasks[k].id)
                  /\ activeInRequests[tasks[k].conn][tasks[k].id] = k
          /\ (\A k \in TaskIds : Completed(k))
               => \A c \in Conns : activeInRequests[c] = EmptyMap)
    /\ [][\A k \in TaskIds :
            (HandlerReply(k) /\ ~Latest(k))
            => /\ activeInRequests' = activeInRequests
               /\ \A j \in TaskIds \ {k} : tasks'[j] = tasks[j]
        ]_vars

\* a superseded handler has completed while the Request that superseded it
\* is still being handled and holds the entry
C32_Witness ==
    \E k1, k2 \in TaskIds :
        /\ k1 < k2
        /\ tasks[k1].conn = tasks[k2].conn
        /\ tasks[k1].id = tasks[k2].id
        /\ tasks[k1].pc = "dropped"
        /\ ~Completed(k2)
        /\ ~tasks[k2].cancelled
        /\ MapHas(activeInRequests[tasks[k2].conn], tasks[k2].id)
        /\ activeInRequests[tasks[k2].conn][tasks[k2].id] = k2

\* C33: when the originator's cancellation reaches a request that is
\* forwarded to B and unanswered, the router gets to write the Notification
\* $/cancelRequest [tid] on B, tid being the msgid the router gave the
\* forwarded Request on B's connection, unless B answers or goes away first;
\* and every $/cancelRequest the router writes on a connection carries the
\* msgid of a request forwarded on that connection, never the originator's.
C33_CancelReachesTarget ==
    /\ \A k \in 1 .. MaxEvents :
          (/\ k \in TaskIds
           /\ tasks[k].pc = "wait"
           /\ tasks[k].cancelled
           /\ tasks[k].chan = <<>>
           /\ MapHas(activeOutRequests[tasks[k].target], tasks[k].tid))
          ~> (/\ k \in TaskIds
              /\ tasks[k].target # 0
              /\ \/ CancelSent(k)
                 \/ tasks[k].tid \in peerAnswered[tasks[k].target]
                 \/ peerClosed[tasks[k].target]
                 \/ closed[tasks[k].target])
    /\ [](\A c \in Conns : \A j \in CancelFrames(c) :
             /\ out[c][j].params[1].n \notin PeerIds
             /\ \E k \in TaskIds :
                   /\ tasks[k].target = c
                   /\ tasks[k].tid # 0
                   /\ tasks[k].cancelled
                   /\ out[c][j].params = <<Uint(tasks[k].tid)>>)

\* peer A has cancelled its Request, which is forwarded to another peer B;
\* the $/cancelRequest with the B-side msgid is written on B and B has not
\* answered
C33_Witness ==
    \E k \in TaskIds :
        /\ tasks[k].pc = "cwait"
        /\ tasks[k].conn # tasks[k].target
        /\ tasks[k].chan = <<>>
        /\ sent.cancels > 0
        /\ CancelSent(k)
        /\ tasks[k].tid \notin peerAnswered[tasks[k].target]
        /\ ~peerClosed[tasks[k].target]
        /\ MapHas(activeInRequests[tasks[k].conn], tasks[k].id)
        /\ activeInRequests[tasks[k].conn][tasks[k].id] = k

\* C34: at most one value is ever sent on the result channel of an outbound
\* request (the channel, of capacity 1, never makes the run loop wait), and a
\* request whose value has been sent is no longer in activeOutRequests.
C34_OneValuePerResultChan ==
    \A k \in TaskIds :
        /\ Len(tasks[k].chan) <= 1
        /\ tasks[k].chan # <<>>
           => \A c \in Conns : \A i \in DOMAIN activeOutRequests[c] :
                 activeOutRequests[c][i] # k

\* a Response has been delivered to a waiting SendRequest, and a second
\* Response on that connection has been turned away
C34_Witness ==
    \E k \in TaskIds :
        /\ tasks[k].pc \in {"wait", "cwait"}
        /\ Len(tasks[k].chan) = 1
        /\ tasks[k].tid \in peerAnswered[tasks[k].target]
        /\ InSeq(errLog[tasks[k].target], "invalid ID in request response")

\* C35: decoding the Notification $/cancelRequest [i] from peer p changes
\* nothing but the cancellation of the Request with msgid i that p itself
\* has active: it starts no notification handler, writes no frame and leaves
\* every table alone, whoever owns a route named "$/cancelRequest"; so no
\* notification handler ever runs for "$/cancelRequest", and a
\* $/cancelRequest the router writes on a connection belongs to a cancelled
\* request forwarded on that connection.
C35_CancelStaysOnItsConnection ==
    /\ [][\A p \in Conns, i \in PeerIds :
            DecodeIntrinsicNotification(p, <<"$/cancelRequest", <<Uint(i)>>>>)
            => /\ UNCHANGED <<out, routes, routesInternal, activeInRequests,
                              activeOutRequests, errLog, closed>>
               /\ Len(tasks') = Len(tasks)
               /\ \A k \in TaskIds :
                     tasks'[k] # tasks[k]
                     => /\ tasks[k].conn = p
                        /\ tasks[k].id = i
                        /\ MapHas(activeInRequests[p], i)
                        /\ activeInRequests[p][i] = k
                        /\ tasks'[k] = [tasks[k] EXCEPT !.cancelled = TRUE]
        ]_vars
    /\ [](/\ \A k \in TaskIds :
               IsNotification(k) => tasks[k].method # "$/cancelRequest"
          /\ \A c \in Conns : \A j \in CancelFrames(c) :
               \E k \in TaskIds :
                   /\ ~IsNotification(k)
                   /\ tasks[k].target = c
                   /\ tasks[k].tid # 0
                   /\ tasks[k].cancelled
                   /\ out[c][j].params = <<Uint(tasks[k].tid)>>)

\* a peer owns the route "$/cancelRequest" and has a Request with msgid i
\* active; another peer has cancelled its own Request with the same msgid;
\* the owner's request is not cancelled and nothing was written to the owner
C35_Witness ==
    \E k1, k2 \in TaskIds :
        /\ MapHas(routes, "$/cancelRequest")
        /\ routes["$/cancelRequest"] = tasks[k2].conn
        /\ tasks[k1].conn # tasks[k2].conn
        /\ tasks[k1].id = tasks[k2].id
        /\ sent.cancels > 0
        /\ tasks[k1].cancelled
        /\ ~Completed(k1)
        /\ ~tasks[k2].cancelled
        /\ MapHas(activeInRequests[tasks[k2].conn], tasks[k2].id)
        /\ activeInRequests[tasks[k2].conn][tasks[k2].id] = k2
        /\ out[tasks[k2].conn] = <<>>

\* C37: neither decoding a Notification nor running its handler changes
\* routes or routesInternal, whatever the method: the routing table changes
\* only in the handler of a Request and in the cleanup of a connection.
C37_NotificationKeepsRoutes ==
    [][/\ \A p \in Conns, call \in IntrinsicNotifications :
             DecodeIntrinsicNotification(p, call)
             => UNCHANGED <<routes, routesInternal>>
       /\ \A k \in TaskIds :
             (IsNotification(k) /\ tasks'[k] # tasks[k])
             => UNCHANGED <<routes, routesInternal>>
       /\ routes' # routes
          => \/ \E k \in TaskIds :
                   /\ ~IsNotification(k)
                   /\ tasks[k].method \in {"$/register", "$/reset"}
                   /\ HandlerDispatch(k)
             \/ \E c \in Conns : ConnCleanup(c)
      ]_vars

\* a peer that owns a route has sent the Notification $/reset, another peer
\* the Notification $/register ["pong"]; both handlers have run, the route
\* is still there and "pong" is not registered
C37_Witness ==
    \E k1, k2 \in TaskIds :
        /\ tasks[k1].pc = "ndone"
        /\ tasks[k1].method = "$/reset"
        /\ \E m \in DOMAIN routes : routes[m] = tasks[k1].conn
        /\ tasks[k2].pc = "ndone"
        /\ tasks[k2].method = "$/register"
        /\ ~MapHas(routes, "pong")

\* C36: the Notifications of one peer for one routed method are written on
\* the owning connection in the order in which they were decoded: when the
\* handler of a Notification writes its frame, the handler of every
\* Notification of that method decoded earlier from the same connection has
\* run.
C36_NotificationsInOrder ==
    [][\A k \in TaskIds :
          (NotificationDispatch(k) /\ out' # out) =>
             \A j \in 1 .. k - 1 :
                (/\ IsNotification(j)
                 /\ tasks[j].conn = tasks[k].conn
                 /\ tasks[j].method = tasks[k].method)
                => tasks[j].pc = "ndone"
      ]_vars

\* C31: udp/read returns at most max bytes from the front of the buffer of
\* the id and keeps the rest, removing the buffer once nothing is left; the
\* packet stored by udp/awaitPacket replaces what was left of the previous
\* one; so a buffer always holds the tail of one packet, never bytes of
\* two.
IsSuffix(b, p) ==
    /\ Len(b) <= Len(p)
    /\ b = SubSeq(p, Len(p) - Len(b) + 1, Len(p))

ReadReturned ==
    /\ \E params \in ReadParams : udpRead(params)
    /\ lastReturn'.err = Nil

C31_ReadTakesFrontOfLastPacket ==
    /\ [](\A id \in DOMAIN udpReadBuffers :
             \E p \in Packets : IsSuffix(udpReadBuffers[id], p))
    /\ [][ReadReturned =>
             LET id == lastReturn'.params[1].n
                 max == lastReturn'.params[2].n
                 was == IF MapHas(udpReadBuffers, id) THEN udpReadBuffers[id]
                        ELSE <<>>
                 got == lastReturn'.result.s
                 left == IF MapHas(udpReadBuffers', id) THEN udpReadBuffers'[id]
                         ELSE <<>>
             IN  /\ Len(got) <= max
                 /\ got \o left = was
                 /\ Len(got) < max => ~MapHas(udpReadBuffers', id)
                 /\ MapHas(udpReadBuffers', id) => left # <<>>
                 /\ \A other \in DOMAIN udpReadBuffers \ {id} :
                       /\ MapHas(udpReadBuffers', other)
                       /\ udpReadBuffers'[other] = udpReadBuffers[other]
       ]_vars
    /\ [][\A g \in Callers :
             udpAwaitPacketStore(g) =>
                /\ udpReadBuffers'[netCalls[g].id] = netCalls[g].udpBuffer
                /\ netCalls[g].udpBuffer \in Packets
       ]_vars

\* a packet was read in part, replaced by the next packet, and the read
\* after that returned the front of the new packet
C31_Witness ==
    /\ started = MaxCalls
    /\ lastReturn.method = "udp/read"
    /\ lastReturn.err = Nil
    /\ lastReturn.result = Bin(<<"x", "y">>)
    /\ ~MapHas(udpReadBuffers, lastReturn.params[1].n)

\* C38: the id a successful tcp/connect, tcp/listen or udp/connect stores its
\* handle under is, at that moment, the id of no live TCP connection, no
\* live listener and no live UDP connection, also after the counter has
\* wrapped; so no live handle is overwritten.
IdStored ==
    /\ \E params \in ConnectParams, opened \in BOOLEAN :
          \/ tcpConnect(params, opened)
          \/ tcpListen(params, opened)
          \/ udpConnect(params, opened)
    /\ lastReturn'.err = Nil

C38_NewIdIsNotLive ==
    [][IdStored =>
          lastReturn'.result.n \notin
             liveConnections \cup liveListeners \cup liveUdpConnections
      ]_vars

\* C39: no two handlers are inside sections that modify the same one of
\* udpWriteBuffers, udpWriteTargets and udpReadBuffers at the same time,
\* and every step that modifies one of these maps is taken with the package
\* lock held exclusively, that is with no caller holding it as a reader.
C39_MapWritesAreExclusive ==
    /\ [](\A g \in lock, h \in lock : g = h \/ MapWritten(g) # MapWritten(h))
    /\ [][(\/ udpWriteBuffers' # udpWriteBuffers
           \/ udpWriteTargets' # udpWriteTargets
           \/ udpReadBuffers' # udpReadBuffers)
          => lock = {} /\ lock' = {}
       ]_vars

\* C40: every $/serial/close request for the configured serial port is
\* eventually answered true.
C40_SerialCloseReplies ==
    \A r \in 1 .. MaxSerialCalls :
        (/\ r \in SerialCallIds
         /\ serialCalls[r].method = "$/serial/close"
         /\ serialCalls[r].params = <<Str(SerialPortAddr)>>)
        ~> (/\ r \in SerialCallIds
            /\ serialCalls[r].pc = "replied"
            /\ serialCalls[r].result = True)

\* C7: the frames written on one connection by concurrent senders appear on
\* the stream as whole frames one after another: every chunk either continues
\* the frame of the chunk before it, or starts a frame right after a complete
\* one; only a failed Write, after which the stream carries nothing more,
\* leaves a frame unfinished.
C7_FramesNotInterleaved ==
    \A x \in DOMAIN wire :
        \/ wire[x] = Broken /\ x = Len(wire)
        \/ /\ wire[x] # Broken
           /\ IF wire[x].i = 1
              THEN x = 1 \/ wire[x - 1].i = FrameChunks
              ELSE /\ x > 1
                   /\ wire[x - 1].w = wire[x].w
                   /\ wire[x - 1].i = wire[x].i - 1

\* a sender waits for outMutex while another one is in the middle of its
\* frame, after a whole frame of a third one
C7_Witness ==
    \E w1, w2 \in DOMAIN senders :
        /\ senders[w1].pc = "encode"
        /\ senders[w1].n = 1
        /\ senders[w2].pc = "lock"
        /\ Len(wire) = FrameChunks + 1
        /\ wire[1].w # w1
        /\ wire[1].type # senders[w1].type

====
